---------------------------- MODULE Spec2Model ----------------------------
(***************************************************************************)
(* Model of the sol-2 scheduler of google-dag-optimization: graph          *)
(* analysis, cost model, granularity search, fusion, scheduling,           *)
(* retention planning and the SolveOptimized driver.                       *)
(*                                                                         *)
(* Conventions.  Ops and tensors are indexed from 0 as in the source; a    *)
(* Go slice is a TLA+ sequence (positions from 1) of such indices; a Go    *)
(* map[int]bool is a set.  A latency is kept multiplied by the slow-memory *)
(* bandwidth, so that max(compute, bytes/bw) becomes the integer           *)
(* max(compute*bw, bytes); every comparison the code makes between two     *)
(* latencies of one problem is unchanged by that factor.  Inf stands for   *)
(* math.Inf(1).  A nil slice and an empty slice are both << >>.            *)
(***************************************************************************)
EXTENDS Integers, Sequences, FiniteSets, TLC

VARIABLES p, pc, run, first, groups, sched, schedule, idx, optSol, recSol,
          sol, evalOk, trail, merges, orders, sizes, fusion

vars == <<p, pc, run, first, groups, sched, schedule, idx, optSol, recSol,
          sol, evalOk, trail, merges, orders, sizes, fusion>>

-----------------------------------------------------------------------------
(* Generic helpers for slices, maps and sums.                              *)

Inf == 1000000000

Range(s) == {s[i] : i \in DOMAIN s}

Fn0(s) == [i \in 0..(Len(s) - 1) |-> s[i + 1]]

RECURSIVE SumFn(_)
SumFn(f) ==
  IF DOMAIN f = {} THEN 0
  ELSE LET x == CHOOSE y \in DOMAIN f : TRUE
       IN f[x] + SumFn([y \in DOMAIN f \ {x} |-> f[y]])

RECURSIVE SumSeq(_)
SumSeq(s) == IF s = << >> THEN 0 ELSE Head(s) + SumSeq(Tail(s))

AddLat(a, b) == IF a >= Inf \/ b >= Inf THEN Inf ELSE a + b

RECURSIVE Concat(_)
Concat(ss) == IF ss = << >> THEN << >> ELSE Head(ss) \o Concat(Tail(ss))

RECURSIVE SortedAsc(_)
SortedAsc(S) ==
  IF S = {} THEN << >>
  ELSE LET m == CHOOSE x \in S : \A y \in S : x <= y
       IN <<m>> \o SortedAsc(S \ {m})

Reverse(s) == [i \in 1..Len(s) |-> s[Len(s) + 1 - i]]

Perms(S) ==
  {s \in [1..Cardinality(S) -> S] : \A i, j \in 1..Cardinality(S) : i # j => s[i] # s[j]}

CeilDiv(a, b) == (a + b - 1) \div b

MaxInt(a, b) == IF a > b THEN a ELSE b

MinInt(a, b) == IF a < b THEN a ELSE b

MaxFloat(a, b) == IF a > b THEN a ELSE b

containsInt(s, v) == \E i \in DOMAIN s : s[i] = v

\* The element of a singleton set: Only({e : x \in {v}}) is e with v for x,
\* the value v being computed once.
Only(S) == CHOOSE x \in S : TRUE

-----------------------------------------------------------------------------
(* Graph analysis (graph_analysis.go).                                     *)

NumOps(q) == Cardinality(DOMAIN q.Ops)

OpIds(q) == DOMAIN q.Ops

\* ProducerOf[t]: the last op (in index order) that lists t as an output.
HasProducer(q, t) == \E i \in OpIds(q) : containsInt(q.Ops[i].Outputs, t)

ProducerOf(q, t) ==
  CHOOSE i \in OpIds(q) :
    /\ containsInt(q.Ops[i].Outputs, t)
    /\ \A j \in OpIds(q) : containsInt(q.Ops[j].Outputs, t) => j <= i

\* ConsumersOf[t]: one entry per input position reading t, ops ascending.
RECURSIVE ConsumersFrom(_, _, _)
ConsumersFrom(q, t, i) ==
  IF i >= NumOps(q) THEN << >>
  ELSE [k \in 1..Len(SelectSeq(q.Ops[i].Inputs, LAMBDA x : x = t)) |-> i]
         \o ConsumersFrom(q, t, i + 1)

\* Variant: only the first reader is recorded.
FirstConsumerOnly(q, t) ==
  IF ConsumersFrom(q, t, 0) = << >> THEN << >> ELSE <<Head(ConsumersFrom(q, t, 0))>>

ConsumersOf(q, t) == ConsumersFrom(q, t, 0)

\* Dependencies[i]: producers of i's inputs, first occurrence order, no repeats.
RECURSIVE DedupProducers(_, _, _)
DedupProducers(q, ins, seen) ==
  IF ins = << >> THEN << >>
  ELSE IF HasProducer(q, Head(ins)) /\ ProducerOf(q, Head(ins)) \notin seen
       THEN <<ProducerOf(q, Head(ins))>>
              \o DedupProducers(q, Tail(ins), seen \cup {ProducerOf(q, Head(ins))})
       ELSE DedupProducers(q, Tail(ins), seen)

Dependencies(q, i) == DedupProducers(q, q.Ops[i].Inputs, {})

\* Dependents[i]: ops that depend on i, in ascending op order.
Dependents(q, i) ==
  SortedAsc({j \in OpIds(q) : containsInt(Dependencies(q, j), i)})

\* topologicalSort: Kahn's algorithm with a FIFO queue.
RECURSIVE KahnRelease(_, _, _)
KahnRelease(deps, inDegree, queue) ==
  IF deps = << >> THEN [inDegree |-> inDegree, queue |-> queue]
  ELSE LET d == Head(deps)
           deg == [inDegree EXCEPT ![d] = @ - 1]
       IN KahnRelease(Tail(deps), deg, IF deg[d] = 0 THEN Append(queue, d) ELSE queue)

RECURSIVE KahnLoop(_, _, _, _)
KahnLoop(q, inDegree, queue, order) ==
  IF queue = << >> THEN order
  ELSE LET node == Head(queue)
           r == KahnRelease(Dependents(q, node), inDegree, Tail(queue))
       IN KahnLoop(q, r.inDegree, r.queue, Append(order, node))

topologicalSort(q) ==
  LET inDegree == [i \in OpIds(q) |-> Len(Dependencies(q, i))]
      queue == SortedAsc({i \in OpIds(q) : inDegree[i] = 0})
  IN KahnLoop(q, inDegree, queue, << >>)

\* GetSubgraphBoundary: the five sets of a group of ops.
GetSubgraphBoundary(q, ops) ==
  Only({[AllProduced |-> produced,
         AllConsumed |-> consumed,
         Ephemeral |-> produced \cap consumed,
         BoundaryInputs |-> consumed \ produced,
         BoundaryOutputs |-> produced \ (produced \cap consumed)]
        : produced \in {UNION {Range(q.Ops[o].Outputs) : o \in Range(ops)}},
          consumed \in {UNION {Range(q.Ops[o].Inputs) : o \in Range(ops)}}})

\* FindLinearChains: extend a chain while the current op has exactly one
\* output, read at exactly one input position, by an unvisited op.
RECURSIVE ExtendChain(_, _, _, _)
ExtendChain(q, chain, visited, current) ==
  LET op == q.Ops[current] IN
  IF Len(op.Outputs) # 1 THEN [chain |-> chain, visited |-> visited]
  ELSE LET consumers == ConsumersOf(q, op.Outputs[1]) IN
       IF Len(consumers) # 1 THEN [chain |-> chain, visited |-> visited]
       ELSE IF consumers[1] \in visited THEN [chain |-> chain, visited |-> visited]
       ELSE ExtendChain(q, Append(chain, consumers[1]),
                        visited \cup {consumers[1]}, consumers[1])

RECURSIVE ChainsFrom(_, _, _)
ChainsFrom(q, order, visited) ==
  IF order = << >> THEN << >>
  ELSE IF Head(order) \in visited THEN ChainsFrom(q, Tail(order), visited)
  ELSE LET r == ExtendChain(q, <<Head(order)>>, visited \cup {Head(order)}, Head(order))
       IN <<r.chain>> \o ChainsFrom(q, Tail(order), r.visited)

FindLinearChains(q) == ChainsFrom(q, topologicalSort(q), {})

\* AllAncestorOps: transitive closure of Dependencies from opIdx.
RECURSIVE AncestorsDfs(_, _, _)
AncestorsDfs(q, deps, ancestors) ==
  IF deps = << >> THEN ancestors
  ELSE IF Head(deps) \in ancestors THEN AncestorsDfs(q, Tail(deps), ancestors)
  ELSE AncestorsDfs(q, Tail(deps),
         AncestorsDfs(q, Dependencies(q, Head(deps)), ancestors \cup {Head(deps)}))

AllAncestorOps(q, opIdx) == AncestorsDfs(q, Dependencies(q, opIdx), {})

\* Variant: every set of ops is taken as valid.
isTopologicallyValidAlways(q, ops) == TRUE

\* isTopologicallyValid: no member is an ancestor of an outside dependency
\* of another member.
isTopologicallyValid(q, ops) ==
  LET opSet == Range(ops) IN
  \A op \in opSet :
    \A dep \in Range(Dependencies(q, op)) :
      dep \notin opSet =>
        \A other \in opSet : ~(other # op /\ other \in AllAncestorOps(q, dep))

canFuseGroups(q, g1, g2) == isTopologicallyValid(q, g1 \o g2)

\* sortOpsTopologically: the ops of a group in the order of TopoOrder.  The
\* keys are distinct for the ops of an acyclic problem, so the order does
\* not depend on the sorting algorithm; an op absent from TopoOrder has key 0.
OrderKey(topo, op) ==
  IF \E i \in DOMAIN topo : topo[i] = op
  THEN (CHOOSE i \in DOMAIN topo : topo[i] = op) - 1
  ELSE 0

RECURSIVE SortByKey(_, _)
SortByKey(topo, ops) ==
  IF ops = << >> THEN << >>
  ELSE LET i == CHOOSE j \in DOMAIN ops :
                  /\ \A k \in DOMAIN ops : OrderKey(topo, ops[j]) <= OrderKey(topo, ops[k])
                  /\ \A k \in DOMAIN ops :
                       (OrderKey(topo, ops[j]) = OrderKey(topo, ops[k])) => j <= k
       IN <<ops[i]>> \o SortByKey(topo, [k \in 1..(Len(ops) - 1) |->
                                           IF k < i THEN ops[k] ELSE ops[k + 1]])

sortOpsTopologically(q, ops) == SortByKey(topologicalSort(q), ops)

-----------------------------------------------------------------------------
(* The topological sorts of the baseline and of sol-1.                     *)

\* Kahn's loop over a given dependents map.
RECURSIVE KahnOver(_, _, _, _)
KahnOver(dependents, inDegree, queue, order) ==
  IF queue = << >> THEN order
  ELSE LET r == KahnRelease(dependents[Head(queue)], inDegree, Tail(queue))
       IN KahnOver(dependents, r.inDegree, r.queue, Append(order, Head(queue)))

\* The entries op i appends to dependents[node]: one per input position
\* whose tensor node produces.
EdgesTo(q, node, i) ==
  [k \in 1..Len(SelectSeq(q.Ops[i].Inputs,
                          LAMBDA t : HasProducer(q, t) /\ ProducerOf(q, t) = node)) |-> i]

RECURSIVE EdgesFrom(_, _, _, _)
EdgesFrom(q, node, i, last) ==
  IF i > last THEN << >> ELSE EdgesTo(q, node, i) \o EdgesFrom(q, node, i + 1, last)

\* Baseline TopologicalSort: inDegree and dependents count every input
\* position that has a producer.
TopologicalSort(q) ==
  LET dependents == [n \in OpIds(q) |-> EdgesFrom(q, n, 0, NumOps(q) - 1)]
      inDegree == [i \in OpIds(q) |->
                     Len(SelectSeq(q.Ops[i].Inputs, LAMBDA t : HasProducer(q, t)))]
  IN KahnOver(dependents, inDegree, SortedAsc({i \in OpIds(q) : inDegree[i] = 0}), << >>)

RECURSIVE uniqueInts(_, _)
uniqueInts(s, seen) ==
  IF s = << >> THEN << >>
  ELSE IF Head(s) \in seen THEN uniqueInts(Tail(s), seen)
  ELSE <<Head(s)>> \o uniqueInts(Tail(s), seen \cup {Head(s)})

\* sol-1 AnalyzeGraph: Dependencies[i] is complete when iteration i removes
\* its repeats; Dependents[i] then holds only the entries of ops up to i, and
\* the entries later ops append keep their repeats.
Sol1Dependencies(q, i) ==
  uniqueInts([k \in 1..Len(SelectSeq(q.Ops[i].Inputs, LAMBDA t : HasProducer(q, t))) |->
                ProducerOf(q, SelectSeq(q.Ops[i].Inputs, LAMBDA t : HasProducer(q, t))[k])],
             {})

Sol1Dependents(q, n) ==
  uniqueInts(EdgesFrom(q, n, 0, n), {}) \o EdgesFrom(q, n, n + 1, NumOps(q) - 1)

Sol1TopologicalSort(q) ==
  LET dependents == [n \in OpIds(q) |-> Sol1Dependents(q, n)]
      inDegree == [i \in OpIds(q) |-> Len(Sol1Dependencies(q, i))]
  IN KahnOver(dependents, inDegree, SortedAsc({i \in OpIds(q) : inDegree[i] = 0}), << >>)

-----------------------------------------------------------------------------
(* Cost model (evaluate.go).                                               *)

\* InputTileRole: the role the first reader of tensorIdx, in slice order,
\* gives it at the first input position that names it.
RECURSIVE InputTileRole(_, _, _)
InputTileRole(q, ops, tensorIdx) ==
  IF ops = << >> THEN "PW"
  ELSE IF ~containsInt(q.Ops[Head(ops)].Inputs, tensorIdx)
       THEN InputTileRole(q, Tail(ops), tensorIdx)
  ELSE IF q.Ops[Head(ops)].OpType # "MatMul" THEN "PW"
  ELSE IF q.Ops[Head(ops)].Inputs[1] = tensorIdx THEN "LHS"
  ELSE "RHS"

\* InputTileSize runs the same loop and returns the tile of that role.
TileOfRole(role, w, h, k) ==
  IF role = "LHS" THEN k * h ELSE IF role = "RHS" THEN w * k ELSE w * h

InputTileSize(q, ops, tensorIdx, w, h, k) ==
  TileOfRole(InputTileRole(q, ops, tensorIdx), w, h, k)

FullTensorSize(q, tIdx) == q.Tensors[tIdx].Width * q.Tensors[tIdx].Height

ComputeWorkingSet(q, ops, gran, residentTensors) ==
  Only({SumFn([t \in boundary.BoundaryInputs |->
                 IF t \in residentTensors THEN FullTensorSize(q, t)
                 ELSE InputTileSize(q, ops, t, gran[1], gran[2], gran[3])])
        + Cardinality(boundary.BoundaryOutputs) * (gran[1] * gran[2])
        + SumFn([t \in {u \in residentTensors :
                          u \notin boundary.BoundaryInputs /\ u \notin boundary.AllProduced}
                   |-> FullTensorSize(q, t)])
        : boundary \in {GetSubgraphBoundary(q, ops)}})

ComputeWorkingSetWithRetained(q, ops, gran, residentTensors, retainedAfter) ==
  LET tileSize == gran[1] * gran[2]
      extra(boundary, tIdx) ==
        IF tIdx \in boundary.BoundaryOutputs /\ FullTensorSize(q, tIdx) > tileSize
        THEN FullTensorSize(q, tIdx) - tileSize
        ELSE 0
  IN ComputeWorkingSet(q, ops, gran, residentTensors)
     + SumFn([i \in DOMAIN retainedAfter |->
                extra(GetSubgraphBoundary(q, ops), retainedAfter[i])])

RECURSIVE MaxKFrom(_, _, _)
MaxKFrom(q, ops, maxK) ==
  IF ops = << >> THEN maxK
  ELSE LET op == q.Ops[Head(ops)] IN
       IF op.OpType = "MatMul" /\ q.Tensors[op.Inputs[1]].Width > maxK
       THEN MaxKFrom(q, Tail(ops), q.Tensors[op.Inputs[1]].Width)
       ELSE MaxKFrom(q, Tail(ops), maxK)

GetMaxK(q, ops) == MaxKFrom(q, ops, 1)

GetOutputTensor(q, ops) == q.Ops[ops[Len(ops)]].Outputs[1]

HasMatMul(q, ops) == \E i \in DOMAIN ops : q.Ops[ops[i]].OpType = "MatMul"

ComputePerStep(q, ops) == SumFn([i \in DOMAIN ops |-> q.Ops[ops[i]].BaseCost])

\* EvaluateSubgraphDetailed: the step-by-step latency (times bandwidth).
\* The result is [err, lat]; err is the code's non-nil error.
DefaultTraversal(nSpatial) == [i \in 1..nSpatial |-> i - 1]

StepBytesWithResident(q, ops, gran, retainSet, residentTensors, boundary, nK, step, kStep, row, col, prevRow, prevCol) ==
  LET w == gran[1]
      h == gran[2]
      k == gran[3]
      canReuse(role) ==
        IF step > 0 /\ kStep = 0
        THEN (role = "LHS" /\ row = prevRow) \/ (role = "RHS" /\ col = prevCol)
        ELSE IF kStep > 0 THEN role = "PW"
        ELSE FALSE
  IN SumFn([t \in {u \in boundary.BoundaryInputs : ~canReuse(InputTileRole(q, ops, u))}
              |-> InputTileSize(q, ops, t, w, h, k)])
     + (IF kStep = nK - 1
        THEN Cardinality(boundary.BoundaryOutputs \ retainSet) * (w * h)
        ELSE 0)

StepBytes(q, ops, gran, retainSet, residentTensors, boundary, nK, step, kStep, row, col, prevRow, prevCol) ==
  LET w == gran[1]
      h == gran[2]
      k == gran[3]
      canReuse(role) ==
        IF step > 0 /\ kStep = 0
        THEN (role = "LHS" /\ row = prevRow) \/ (role = "RHS" /\ col = prevCol)
        ELSE IF kStep > 0 THEN role = "PW"
        ELSE FALSE
  IN SumFn([t \in {u \in boundary.BoundaryInputs :
                     u \notin residentTensors /\ ~canReuse(InputTileRole(q, ops, u))}
              |-> InputTileSize(q, ops, t, w, h, k)])
     + (IF kStep = nK - 1
        THEN Cardinality(boundary.BoundaryOutputs \ retainSet) * (w * h)
        ELSE 0)

RECURSIVE KLoop(_, _, _, _, _, _, _, _, _, _, _, _, _, _)
KLoop(q, ops, gran, retainSet, residentTensors, boundary, nK, step, kStep, row, col, prevRow, prevCol, compTime) ==
  IF kStep >= nK THEN 0
  ELSE MaxFloat(compTime,
                StepBytes(q, ops, gran, retainSet, residentTensors, boundary, nK,
                          step, kStep, row, col, prevRow, prevCol))
       + KLoop(q, ops, gran, retainSet, residentTensors, boundary, nK, step,
               kStep + 1, row, col, prevRow, prevCol, compTime)

\* The spatial loop over steps lo..hi: step s visits tile traversalOrder[s]
\* and remembers the row and column of step s-1.  The steps are summed by
\* halves; the total is that of the loop.
RECURSIVE SpatialLoop(_, _, _, _, _, _, _, _, _, _, _, _)
SpatialLoop(q, ops, gran, retainSet, residentTensors, boundary, nK, nCols, traversalOrder, lo, hi, compTime) ==
  IF lo > hi THEN 0
  ELSE IF lo = hi
  THEN KLoop(q, ops, gran, retainSet, residentTensors, boundary, nK, lo, 0,
             traversalOrder[lo + 1] \div nCols, traversalOrder[lo + 1] % nCols,
             IF lo > 0 THEN traversalOrder[lo] \div nCols ELSE -1,
             IF lo > 0 THEN traversalOrder[lo] % nCols ELSE -1,
             compTime)
  ELSE SpatialLoop(q, ops, gran, retainSet, residentTensors, boundary, nK, nCols,
                   traversalOrder, lo, (lo + hi) \div 2, compTime)
       + SpatialLoop(q, ops, gran, retainSet, residentTensors, boundary, nK, nCols,
                     traversalOrder, ((lo + hi) \div 2) + 1, hi, compTime)

EvaluateSubgraphDetailed(q, ops, gran, tensorsToRetain, traversalOrder, residentTensors) ==
  IF Len(ops) = 0 THEN [err |-> TRUE, lat |-> 0]
  ELSE IF gran[1] <= 0 \/ gran[2] <= 0 \/ gran[3] <= 0 THEN [err |-> TRUE, lat |-> 0]
  ELSE
    LET boundary == GetSubgraphBoundary(q, ops)
        outT == q.Tensors[GetOutputTensor(q, ops)]
        nCols == CeilDiv(outT.Width, gran[1])
        nRows == CeilDiv(outT.Height, gran[2])
        nSpatial == nCols * nRows
        nK == CeilDiv(GetMaxK(q, ops), gran[3])
        compTime == ComputePerStep(q, ops) * q.SlowMemoryBandwidth
        trav == IF Len(traversalOrder) # nSpatial THEN DefaultTraversal(nSpatial)
                ELSE traversalOrder
    IN [err |-> FALSE,
        lat |-> SpatialLoop(q, ops, gran, Range(tensorsToRetain), residentTensors,
                            boundary, nK, nCols, trav, 0, nSpatial - 1, compTime)]

\* QuickEstimate: closed-form latency with snake reuse (times bandwidth).
QuickEstimate(q, ops, gran, residentTensors) ==
  IF Len(ops) = 0 THEN Inf
  ELSE IF gran[1] <= 0 \/ gran[2] <= 0 \/ gran[3] <= 0 THEN Inf
  ELSE
    LET w == gran[1]
        h == gran[2]
        k == gran[3]
        boundary == GetSubgraphBoundary(q, ops)
        outT == q.Tensors[GetOutputTensor(q, ops)]
        nCols == CeilDiv(outT.Width, w)
        nRows == CeilDiv(outT.Height, h)
        nSpatial == nCols * nRows
        nK == CeilDiv(GetMaxK(q, ops), k)
        loads(role) ==
          IF role = "LHS" THEN nRows * nK
          ELSE IF role = "RHS" THEN nCols * nK
          ELSE nSpatial
        totalMemory ==
          SumFn([t \in boundary.BoundaryInputs \ residentTensors |->
                   InputTileSize(q, ops, t, w, h, k) * loads(InputTileRole(q, ops, t))])
          + Cardinality(boundary.BoundaryOutputs) * (w * h) * nSpatial
        totalCompute == ComputePerStep(q, ops) * nSpatial * nK
    IN MaxFloat(totalCompute * q.SlowMemoryBandwidth, totalMemory)

\* The residency seen by subgraph i of a solution: what subgraph i-1 retains.
ResidentBefore(subgraphs, i) ==
  IF i <= 1 THEN {} ELSE Range(subgraphs[i - 1].TensorsToRetain)

\* EvaluateSolution: [err, lat].  Coverage first, then per subgraph the
\* working set and the detailed latency under the running residency.
RECURSIVE EvaluateFrom(_, _, _)
EvaluateFrom(q, subgraphs, i) ==
  IF i > Len(subgraphs) THEN [err |-> FALSE, lat |-> 0]
  ELSE LET sg == subgraphs[i]
           resident == ResidentBefore(subgraphs, i)
       IN IF ComputeWorkingSet(q, sg.Ops, sg.Granularity, resident)
               > q.FastMemoryCapacity
          THEN [err |-> TRUE, lat |-> 0]
          ELSE Only({IF r.err THEN [err |-> TRUE, lat |-> 0]
                     ELSE LET rest == EvaluateFrom(q, subgraphs, i + 1)
                          IN IF rest.err THEN rest
                             ELSE [err |-> FALSE, lat |-> r.lat + rest.lat]
                     : r \in {EvaluateSubgraphDetailed(q, sg.Ops, sg.Granularity,
                                sg.TensorsToRetain, sg.TraversalOrder, resident)}})

EvaluateSolution(q, subgraphs) ==
  LET coveredOps == UNION {Range(subgraphs[i].Ops) : i \in DOMAIN subgraphs} IN
  IF \E i \in OpIds(q) : i \notin coveredOps THEN [err |-> TRUE, lat |-> 0]
  ELSE EvaluateFrom(q, subgraphs, 1)

-----------------------------------------------------------------------------
(* Granularity search and traversal selection.                             *)

RECURSIVE DoublingsFrom(_, _)
DoublingsFrom(v, tensorSize) ==
  IF v <= 0 \/ v > tensorSize THEN {} ELSE {v} \cup DoublingsFrom(v * 2, tensorSize)

RECURSIVE HalvingsFrom(_, _)
HalvingsFrom(v, floor) ==
  IF v < floor THEN {} ELSE {v} \cup HalvingsFrom(v \div 2, floor)

generateDimCandidates(native, tensorSize) ==
  LET cands == {native}
                 \cup DoublingsFrom(native * 2, tensorSize)
                 \cup HalvingsFrom(native \div 2, MaxInt(native \div 8, 1))
                 \cup (IF tensorSize > 0 THEN {tensorSize} ELSE {})
  IN SortedAsc({v \in cands : v > 0 /\ v <= tensorSize})

CommonKSizes == {32, 64, 128, 256, 512, 1024}

MaxKCandidates == 8

generateKCandidates(maxK) ==
  IF maxK <= 1 THEN <<1>>
  ELSE LET cands == {maxK} \cup HalvingsFrom(maxK \div 2, 1)
                      \cup {v \in CommonKSizes : v <= maxK}
           result == Reverse(SortedAsc(cands))
       IN IF Len(result) > MaxKCandidates THEN SubSeq(result, 1, MaxKCandidates)
          ELSE result

\* The binary search of capacityDrivenCandidates: the final value of hi.
RECURSIVE BinarySearchHi(_, _, _, _)
BinarySearchHi(lo, hi, ws, availCap) ==
  IF lo > hi THEN hi
  ELSE LET mid == (lo + hi) \div 2 IN
       IF ws[mid] <= availCap THEN BinarySearchHi(mid + 1, hi, ws, availCap)
       ELSE BinarySearchHi(lo, mid - 1, ws, availCap)

\* int(math.Sqrt(float64(n))) for n >= 0.
RECURSIVE SqrtFrom(_, _)
SqrtFrom(n, s) == IF (s + 1) * (s + 1) > n THEN s ELSE SqrtFrom(n, s + 1)

\* residentOverhead: every resident tensor is held in full.
ResidentOverhead(q, boundary, residentTensors) ==
  SumFn([t \in {u \in residentTensors :
                  u \notin boundary.BoundaryInputs /\ u \notin boundary.AllProduced}
           |-> FullTensorSize(q, t)])
  + SumFn([t \in boundary.BoundaryInputs \cap residentTensors |-> FullTensorSize(q, t)])

\* numLHS, numRHS, numPW over the non-resident boundary inputs, and numOut.
RoleCounts(q, ops, boundary, residentTensors) ==
  [LHS |-> Cardinality({t \in boundary.BoundaryInputs \ residentTensors :
                          InputTileRole(q, ops, t) = "LHS"}),
   RHS |-> Cardinality({t \in boundary.BoundaryInputs \ residentTensors :
                          InputTileRole(q, ops, t) = "RHS"}),
   PW |-> Cardinality({t \in boundary.BoundaryInputs \ residentTensors :
                         InputTileRole(q, ops, t) = "PW"}),
   Out |-> Cardinality(boundary.BoundaryOutputs)]

\* The working set a binary search gives to a w x h x k tile.
SearchWS(num, w, h, k) == num.LHS * k * h + num.RHS * w * k + (num.PW + num.Out) * w * h

\* The two binary searches of one k: the widest tile at native height,
\* then the tallest tile at native width.
CapacityForK(q, outW, outH, num, availCap, k) ==
  LET nw == q.NativeGranularity[1]
      nh == q.NativeGranularity[2]
      hiW == BinarySearchHi(nw, outW, [mid \in nw..outW |-> SearchWS(num, mid, nh, k)],
                            availCap)
      hiH == BinarySearchHi(nh, outH, [mid \in nh..outH |-> SearchWS(num, nw, mid, k)],
                            availCap)
  IN IF k <= 0 THEN << >>
     ELSE (IF hiW >= nw THEN <<(<<MinInt(hiW, outW), nh, k>>)>> ELSE << >>)
          \o (IF hiH >= nh THEN <<(<<nw, MinInt(hiH, outH), k>>)>> ELSE << >>)

\* The pointwise branch: one square tile, a multiple of the native width.
SquareCandidate(q, boundary, residentTensors, availCap, outW, outH) ==
  LET nw == q.NativeGranularity[1]
      numIO == Cardinality(boundary.BoundaryInputs) + Cardinality(boundary.BoundaryOutputs)
                 - Cardinality(boundary.BoundaryInputs \cap residentTensors)
      s == (SqrtFrom(availCap \div numIO, 0) \div nw) * nw
  IN IF numIO > 0 /\ availCap \div numIO > 0 /\ availCap > 0
     THEN (IF s > 0 THEN <<(<<MinInt(s, outW), MinInt(s, outH), 1>>)>> ELSE << >>)
     ELSE << >>

capacityDrivenCandidates(q, ops, residentTensors, outW, outH, maxK, hasMatmul) ==
  Only({IF hasMatmul
        THEN Only({CapacityForK(q, outW, outH, num, availCap, maxK)
                     \o CapacityForK(q, outW, outH, num, availCap, maxK \div 2)
                     \o CapacityForK(q, outW, outH, num, availCap, maxK \div 4)
                   : num \in {RoleCounts(q, ops, boundary, residentTensors)},
                     availCap \in {q.FastMemoryCapacity
                                     - ResidentOverhead(q, boundary, residentTensors)}})
        ELSE SquareCandidate(q, boundary, residentTensors,
                             q.FastMemoryCapacity
                               - ResidentOverhead(q, boundary, residentTensors),
                             outW, outH)
        : boundary \in {GetSubgraphBoundary(q, ops)}})

\* A variant of the less function that puts the smaller tile first among
\* candidates of like latency.
candidateLessSmallTiles(q, a, b) ==
  IF a.Feasible # b.Feasible THEN a.Feasible
  ELSE IF a.K # b.K THEN a.K > b.K
  ELSE IF a.Latency < Inf /\ b.Latency < Inf
          /\ (a.Latency - b.Latency > q.SlowMemoryBandwidth
              \/ b.Latency - a.Latency > q.SlowMemoryBandwidth)
       THEN a.Latency < b.Latency
  ELSE IF (a.Latency < Inf) # (b.Latency < Inf) THEN a.Latency < b.Latency
  ELSE a.W * a.H < b.W * b.H

\* The less function of generateCandidates' sort.Slice.
candidateLess(q, a, b) ==
  IF a.Feasible # b.Feasible THEN a.Feasible
  ELSE IF a.K # b.K THEN a.K > b.K
  ELSE IF a.Latency < Inf /\ b.Latency < Inf
          /\ (a.Latency - b.Latency > q.SlowMemoryBandwidth
              \/ b.Latency - a.Latency > q.SlowMemoryBandwidth)
       THEN a.Latency < b.Latency
  ELSE IF (a.Latency < Inf) # (b.Latency < Inf) THEN a.Latency < b.Latency
  ELSE a.W * a.H > b.W * b.H

\* sort.Slice on at most 12 elements is Go's insertion sort:
\* for i := 1; i < n; i++ { for j := i; j > 0 && less(j, j-1); j-- { swap } }
RECURSIVE InsertBack(_, _, _)
InsertBack(q, s, j) ==
  IF j > 1 /\ candidateLess(q, s[j], s[j - 1])
  THEN InsertBack(q, [s EXCEPT ![j] = s[j - 1], ![j - 1] = s[j]], j - 1)
  ELSE s

RECURSIVE InsertionSortFrom(_, _, _)
InsertionSortFrom(q, s, i) ==
  IF i > Len(s) THEN s
  ELSE InsertionSortFrom(q, InsertBack(q, s, i), i + 1)

SortCandidates(q, s) == InsertionSortFrom(q, s, 2)

SnakeTraversalNeverTurning(nCols, nRows) == [i \in 1..(nCols * nRows) |-> i - 1]

SnakeTraversal(nCols, nRows) ==
  [i \in 1..(nCols * nRows) |->
     LET row == (i - 1) \div nCols
         off == (i - 1) % nCols
     IN IF row % 2 = 0 THEN row * nCols + off
        ELSE row * nCols + (nCols - 1 - off)]

ColumnSnakeTraversal(nCols, nRows) ==
  [i \in 1..(nCols * nRows) |->
     LET col == (i - 1) \div nRows
         off == (i - 1) % nRows
     IN IF col % 2 = 0 THEN off * nCols + col
        ELSE (nRows - 1 - off) * nCols + col]

\* addCandidate: reject non-positive sizes, clamp, skip what was already
\* evaluated, score with the working set and the quick estimate.
ClampCandidate(q, ops, raw) ==
  LET outT == q.Tensors[GetOutputTensor(q, ops)]
  IN <<IF raw[1] > outT.Width THEN outT.Width ELSE raw[1],
       IF raw[2] > outT.Height THEN outT.Height ELSE raw[2],
       IF HasMatMul(q, ops) /\ raw[3] > GetMaxK(q, ops) THEN GetMaxK(q, ops) ELSE raw[3]>>

ScoredCandidate(q, ops, residentTensors, gran, ws) ==
  [W |-> gran[1], H |-> gran[2], K |-> gran[3],
   Latency |-> IF ws <= q.FastMemoryCapacity
               THEN QuickEstimate(q, ops, gran, residentTensors)
               ELSE Inf,
   WorkSet |-> ws, Feasible |-> ws <= q.FastMemoryCapacity]

addCandidate(q, ops, residentTensors, candidates, gran) ==
  IF \E i \in DOMAIN candidates :
       candidates[i].W = gran[1] /\ candidates[i].H = gran[2] /\ candidates[i].K = gran[3]
  THEN candidates
  ELSE Append(candidates,
              ScoredCandidate(q, ops, residentTensors, gran,
                              ComputeWorkingSet(q, ops, gran, residentTensors)))

RECURSIVE AddCandidates(_, _, _, _, _)
AddCandidates(q, ops, residentTensors, raw, candidates) ==
  IF raw = << >> THEN candidates
  ELSE AddCandidates(q, ops, residentTensors, Tail(raw),
         IF Head(raw)[1] <= 0 \/ Head(raw)[2] <= 0 \/ Head(raw)[3] <= 0 THEN candidates
         ELSE addCandidate(q, ops, residentTensors, candidates,
                           ClampCandidate(q, ops, Head(raw))))

TopN == 20

\* The three nested loops over wCands, hCands and kCands, in loop order.
GridCandidates(wCands, hCands, kCands) ==
  [i \in 1..(Len(wCands) * Len(hCands) * Len(kCands)) |->
     <<wCands[((i - 1) \div (Len(hCands) * Len(kCands))) + 1],
       hCands[(((i - 1) \div Len(kCands)) % Len(hCands)) + 1],
       kCands[((i - 1) % Len(kCands)) + 1]>>]

\* The candidates of one dimension, with the tensor's size appended if absent.
DimCandidates(native, tensorSize) ==
  Only({IF containsInt(cands, tensorSize) THEN cands ELSE Append(cands, tensorSize)
        : cands \in {generateDimCandidates(native, tensorSize)}})

\* The detailed latency that replaces the estimate of a feasible candidate
\* among the first TopN.
RefinedCandidate(q, ops, residentTensors, c) ==
  LET outT == q.Tensors[GetOutputTensor(q, ops)]
      nCols == CeilDiv(outT.Width, c.W)
      nRows == CeilDiv(outT.Height, c.H)
      trav == IF HasMatMul(q, ops) /\ nCols * nRows > 1 THEN SnakeTraversal(nCols, nRows)
              ELSE << >>
  IN Only({IF r.err THEN c ELSE [c EXCEPT !.Latency = r.lat]
           : r \in {EvaluateSubgraphDetailed(q, ops, <<c.W, c.H, c.K>>, << >>, trav,
                                              residentTensors)}})

RefineTop(q, ops, residentTensors, sorted) ==
  [i \in DOMAIN sorted |->
     IF i <= MinInt(TopN, Len(sorted)) /\ sorted[i].Feasible
     THEN RefinedCandidate(q, ops, residentTensors, sorted[i])
     ELSE sorted[i]]

RawCandidates(q, ops, residentTensors, outT, maxK, hasMatmul) ==
  GridCandidates(DimCandidates(q.NativeGranularity[1], outT.Width),
                 DimCandidates(q.NativeGranularity[2], outT.Height),
                 IF hasMatmul THEN generateKCandidates(maxK) ELSE <<1>>)
    \o capacityDrivenCandidates(q, ops, residentTensors, outT.Width, outT.Height, maxK,
                                hasMatmul)
    \o <<(<<q.NativeGranularity[1], q.NativeGranularity[2], maxK>>),
         (<<q.NativeGranularity[1], q.NativeGranularity[2], 1>>)>>

generateCandidates(q, ops, residentTensors) ==
  RefineTop(q, ops, residentTensors,
    SortCandidates(q,
      AddCandidates(q, ops, residentTensors,
        RawCandidates(q, ops, residentTensors, q.Tensors[GetOutputTensor(q, ops)],
                      GetMaxK(q, ops), HasMatMul(q, ops)),
        << >>)))

\* findSmallestFeasible: halve w, then h, then k from native until it fits.
OrElse(found, other) == IF found # << >> THEN found ELSE other

RECURSIVE SmallestK(_, _, _, _, _, _)
SmallestK(q, ops, residentTensors, w, h, k) ==
  IF k < 1 THEN << >>
  ELSE IF ComputeWorkingSet(q, ops, <<w, h, k>>, residentTensors) <= q.FastMemoryCapacity
  THEN <<w, h, k>>
  ELSE IF ~HasMatMul(q, ops) THEN << >>
  ELSE SmallestK(q, ops, residentTensors, w, h, k \div 2)

RECURSIVE SmallestH(_, _, _, _, _)
SmallestH(q, ops, residentTensors, w, h) ==
  IF h < 1 THEN << >>
  ELSE OrElse(SmallestK(q, ops, residentTensors, w, h, GetMaxK(q, ops)),
              SmallestH(q, ops, residentTensors, w, h \div 2))

RECURSIVE SmallestW(_, _, _, _)
SmallestW(q, ops, residentTensors, w) ==
  IF w < 1 THEN <<1, 1, 1>>
  ELSE OrElse(SmallestH(q, ops, residentTensors, w, q.NativeGranularity[2]),
              SmallestW(q, ops, residentTensors, w \div 2))

\* Variant: the native shape is returned without shrinking it.
findSmallestFeasibleNative(q, ops, residentTensors) ==
  <<q.NativeGranularity[1], q.NativeGranularity[2], GetMaxK(q, ops)>>

findSmallestFeasible(q, ops, residentTensors) ==
  SmallestW(q, ops, residentTensors, q.NativeGranularity[1])

\* The loop shared by FindBestGranularity and FindBestGranularityWithRetain:
\* the first candidate, in sorted order, of strictly smallest latency.
RECURSIVE BestOf(_, _, _, _)
BestOf(candidates, i, bestLat, bestGran) ==
  IF i > Len(candidates) THEN [lat |-> bestLat, gran |-> bestGran]
  ELSE IF candidates[i].Latency < bestLat
       THEN BestOf(candidates, i + 1, candidates[i].Latency,
                   <<candidates[i].W, candidates[i].H, candidates[i].K>>)
       ELSE BestOf(candidates, i + 1, bestLat, bestGran)

FindBestGranularity(q, ops, residentTensors) ==
  Only({IF best.lat >= Inf THEN findSmallestFeasible(q, ops, residentTensors)
        ELSE best.gran
        : best \in {BestOf(SelectSeq(generateCandidates(q, ops, residentTensors),
                                      LAMBDA c : c.Feasible),
                            1, Inf, <<1, 1, 1>>)}})

FindBestGranularityWithRetain(q, ops, residentTensors, retainAfter) ==
  LET fits(c) == c.Feasible
                 /\ ComputeWorkingSetWithRetained(q, ops, <<c.W, c.H, c.K>>,
                      residentTensors, retainAfter) <= q.FastMemoryCapacity
  IN Only({IF best.lat >= Inf THEN findSmallestFeasible(q, ops, residentTensors)
           ELSE best.gran
           : best \in {BestOf(SelectSeq(generateCandidates(q, ops, residentTensors), fits),
                               1, Inf, <<1, 1, 1>>)}})

BestTraversal(q, ops, gran) ==
  LET w == gran[1]
      h == gran[2]
      k == gran[3]
      outT == q.Tensors[GetOutputTensor(q, ops)]
      nCols == CeilDiv(outT.Width, w)
      nRows == CeilDiv(outT.Height, h)
      boundary == GetSubgraphBoundary(q, ops)
      bandwidthOf(role) ==
        SumFn([t \in {u \in boundary.BoundaryInputs : InputTileRole(q, ops, u) = role}
                 |-> InputTileSize(q, ops, t, w, h, k)])
      rowMajorSavings == bandwidthOf("LHS") * (nCols - 1) * nRows
      colMajorSavings == bandwidthOf("RHS") * (nRows - 1) * nCols
  IN IF nCols * nRows <= 1 THEN << >>
     ELSE IF ~HasMatMul(q, ops)
          THEN (IF nCols >= nRows THEN SnakeTraversal(nCols, nRows)
                ELSE ColumnSnakeTraversal(nCols, nRows))
     ELSE IF colMajorSavings > rowMajorSavings THEN ColumnSnakeTraversal(nCols, nRows)
     ELSE SnakeTraversal(nCols, nRows)

-----------------------------------------------------------------------------
(* ComputeWorkingSet of the baseline and of sol-1.                         *)

\* Baseline inputTileSize: the tile of the first input position, over the
\* ops of the subgraph in order, that names the tensor.
inputTileSize(q, sg, tensorIdx, w, h, k) ==
  TileOfRole(InputTileRole(q, sg.Ops, tensorIdx), w, h, k)

\* Baseline ComputeWorkingSet: a tile per consumed tensor the subgraph does
\* not produce, w*h per produced tensor it does not consume, and the full
\* size of each resident tensor it neither consumes nor produces.
BaselineComputeWorkingSet(q, sg, residentTensors) ==
  LET w == sg.Granularity[1]
      h == sg.Granularity[2]
      k == sg.Granularity[3]
      producedInSubgraph == UNION {Range(q.Ops[o].Outputs) : o \in Range(sg.Ops)}
      consumedInSubgraph == UNION {Range(q.Ops[o].Inputs) : o \in Range(sg.Ops)}
      ephemeral == producedInSubgraph \cap consumedInSubgraph
  IN SumFn([t \in {u \in consumedInSubgraph :
                     (u \notin producedInSubgraph \/ u \notin ephemeral)
                     /\ u \notin producedInSubgraph} |-> inputTileSize(q, sg, t, w, h, k)])
     + SumFn([t \in producedInSubgraph \ ephemeral |-> w * h])
     + SumFn([t \in {u \in residentTensors :
                       u \notin consumedInSubgraph /\ u \notin producedInSubgraph}
               |-> q.Tensors[t].Width * q.Tensors[t].Height])

\* sol-1 ComputeWorkingSet: a tile per boundary input, resident or not.
Sol1ComputeWorkingSet(q, ops, gran, retainedFromPrev) ==
  LET boundary == GetSubgraphBoundary(q, ops)
  IN SumFn([t \in boundary.BoundaryInputs |->
              InputTileSize(q, ops, t, gran[1], gran[2], gran[3])])
     + SumFn([t \in boundary.BoundaryOutputs |-> gran[1] * gran[2]])
     + SumFn([t \in {u \in retainedFromPrev :
                       u \notin boundary.BoundaryInputs /\ u \notin boundary.AllProduced}
               |-> q.Tensors[t].Width * q.Tensors[t].Height])

-----------------------------------------------------------------------------
(* Fusion engine.                                                          *)

TryFuseOps(q, ops, residentTensors) ==
  Only({IF ComputeWorkingSet(q, ops, gran, residentTensors) > q.FastMemoryCapacity
        THEN [feasible |-> FALSE, gran |-> gran, lat |-> Inf]
        ELSE Only({IF r.err THEN [feasible |-> FALSE, gran |-> gran, lat |-> Inf]
                   ELSE [feasible |-> TRUE, gran |-> gran, lat |-> r.lat]
                   : r \in {EvaluateSubgraphDetailed(q, ops, gran, << >>,
                                                      BestTraversal(q, ops, gran),
                                                      residentTensors)}})
        : gran \in {FindBestGranularity(q, ops, residentTensors)}})

\* Twice the size of every output of op (evict + reload), times bandwidth.
TransferOfOutputs(q, opIdx) ==
  SumFn([i \in DOMAIN q.Ops[opIdx].Outputs |->
           2 * FullTensorSize(q, q.Ops[opIdx].Outputs[i])])

LatencyOrInf(r) == IF r.err THEN Inf ELSE r.lat

RECURSIVE EstimateUnfusedFrom(_, _, _, _)
EstimateUnfusedFrom(q, ops, residentTensors, i) ==
  IF i > Len(ops) THEN 0
  ELSE AddLat(AddLat(Only({LatencyOrInf(EvaluateSubgraphDetailed(q, <<ops[i]>>, gran, << >>,
                                          BestTraversal(q, <<ops[i]>>, gran),
                                          residentTensors))
                           : gran \in {FindBestGranularity(q, <<ops[i]>>,
                                                           residentTensors)}}),
                     IF i < Len(ops) THEN TransferOfOutputs(q, ops[i]) ELSE 0),
              EstimateUnfusedFrom(q, ops, residentTensors, i + 1))

EstimateUnfusedLatency(q, ops, residentTensors) ==
  EstimateUnfusedFrom(q, ops, residentTensors, 1)

MaxSegLen == 6

\* The cost FuseChainDP gives to the segment chain[j..i) (0-based, half open).
SegmentCost(q, chain, residentTensors, j, i) ==
  LET segment == SubSeq(chain, j + 1, i)
      segResident == IF j > 0 THEN {} ELSE residentTensors
      hits(tIdx) ==
        SumFn([a \in 1..j |->
                 Len(SelectSeq(q.Ops[chain[a]].Outputs, LAMBDA o : o = tIdx))])
      transferCost ==
        IF j > 0
        THEN SumFn([tIdx \in GetSubgraphBoundary(q, segment).BoundaryInputs |->
                      hits(tIdx) * 2 * FullTensorSize(q, tIdx)])
        ELSE 0
  IN AddLat(Only({IF t.feasible THEN t.lat
                  ELSE EstimateUnfusedLatency(q, segment, segResident)
                  : t \in {TryFuseOps(q, segment, segResident)}}),
            transferCost)

RECURSIVE DPInner(_, _, _, _, _, _, _, _)
DPInner(q, chain, residentTensors, dp, i, j, best, bestJ) ==
  IF j >= i THEN [cost |-> best, split |-> bestJ]
  ELSE Only({IF cost < best
             THEN DPInner(q, chain, residentTensors, dp, i, j + 1, cost, j)
             ELSE DPInner(q, chain, residentTensors, dp, i, j + 1, best, bestJ)
             : cost \in {AddLat(dp[j], SegmentCost(q, chain, residentTensors, j, i))}})

RECURSIVE DPOuter(_, _, _, _, _, _)
DPOuter(q, chain, residentTensors, dp, split, i) ==
  IF i > Len(chain) THEN split
  ELSE Only({DPOuter(q, chain, residentTensors,
                     [dp EXCEPT ![i] = r.cost], [split EXCEPT ![i] = r.split], i + 1)
             : r \in {DPInner(q, chain, residentTensors, dp, i,
                              MaxInt(0, i - MinInt(Len(chain), MaxSegLen)), Inf, 0)}})

RECURSIVE DPSegments(_, _, _)
DPSegments(chain, split, i) ==
  IF i <= 0 THEN << >>
  ELSE Append(DPSegments(chain, split, split[i]), SubSeq(chain, split[i] + 1, i))

FuseChainDP(q, chain, residentTensors) ==
  IF Len(chain) = 0 THEN << >>
  ELSE IF Len(chain) = 1 THEN <<chain>>
  ELSE LET zero == [i \in 0..Len(chain) |-> 0]
           split == DPOuter(q, chain, residentTensors, zero, zero, 1)
       IN DPSegments(chain, split, Len(chain))

\* The test of FuseChainGreedy: the fused latency beats the two separate
\* latencies plus the transfer of the previous op's outputs.
GreedyAccepts(fusedLat, separateLat) == fusedLat < separateLat

RECURSIVE GreedyFrom(_, _, _, _, _, _)
GreedyFrom(q, chain, residentTensors, i, currentGroup, grps) ==
  IF i > Len(chain) THEN Append(grps, currentGroup)
  ELSE
    Only({IF ~fused.feasible
          THEN GreedyFrom(q, chain, residentTensors, i + 1, <<chain[i]>>,
                          Append(grps, currentGroup))
          ELSE IF GreedyAccepts(fused.lat,
                    AddLat(AddLat(TryFuseOps(q, currentGroup, residentTensors).lat,
                                  TryFuseOps(q, <<chain[i]>>, {}).lat),
                           TransferOfOutputs(q, chain[i - 1])))
          THEN GreedyFrom(q, chain, residentTensors, i + 1,
                          Append(currentGroup, chain[i]), grps)
          ELSE GreedyFrom(q, chain, residentTensors, i + 1, <<chain[i]>>,
                          Append(grps, currentGroup))
          : fused \in {TryFuseOps(q, Append(currentGroup, chain[i]), residentTensors)}})

FuseChainGreedy(q, chain, residentTensors) ==
  IF Len(chain) <= 1 THEN <<chain>>
  ELSE GreedyFrom(q, chain, residentTensors, 2, <<chain[1]>>, << >>)

GreedyMaxLen == 3

\* Phase 1 of OptimizeSchedule: chains, then greedy or DP fusion per chain.
ChainFusion(q) ==
  Only({Concat([c \in DOMAIN chains |->
                  IF Len(chains[c]) <= GreedyMaxLen THEN FuseChainGreedy(q, chains[c], {})
                  ELSE FuseChainDP(q, chains[c], {})])
        : chains \in {FindLinearChains(q)}})

\* Cross-chain fusion.  tensorToGroups[t]: the groups that read t as a
\* boundary input, ascending.
TensorGroups(q, grps, t) ==
  SortedAsc({g \in DOMAIN grps : t \in GetSubgraphBoundary(q, grps[g]).BoundaryInputs})

MinSharedSize == 1024

MaxFusedOps == 8

HeavyCost == 2000

\* The tensors that propose merges: shared by two groups and large enough.
SharedTensors(q, grps) ==
  {t \in DOMAIN q.Tensors :
     Len(TensorGroups(q, grps, t)) >= 2 /\ FullTensorSize(q, t) >= MinSharedSize}

\* The pairs (i < j) of one tensor's groups that canFuseGroups admits.
AllPairs(gs) ==
  [x \in 1..(Len(gs) * Len(gs)) |->
     <<gs[((x - 1) \div Len(gs)) + 1], gs[((x - 1) % Len(gs)) + 1]>>]

PairsOf(q, grps, t) ==
  LET ok(pr) == pr[1] < pr[2] /\ canFuseGroups(q, grps[pr[1]], grps[pr[2]])
  IN Only({[x \in DOMAIN pairs |->
              [g1 |-> pairs[x][1], g2 |-> pairs[x][2], sharedBW |-> FullTensorSize(q, t)]]
           : pairs \in {SelectSeq(AllPairs(TensorGroups(q, grps, t)), ok)}})

\* The orders in which the range over the tensorToGroups map followed by
\* the sort on sharedBW (descending) can leave the proposing tensors.
TensorOrders(q, grps) ==
  {o \in Perms(SharedTensors(q, grps)) :
     \A i, j \in DOMAIN o : i < j => FullTensorSize(q, o[i]) >= FullTensorSize(q, o[j])}

FusionCandidates(q, grps, order) ==
  Concat([i \in DOMAIN order |-> PairsOf(q, grps, order[i])])

IsHeavy(q, ops) == \E i \in DOMAIN ops : q.Ops[ops[i]].BaseCost > HeavyCost

\* Bridge transfer between two groups, times bandwidth.
BridgeTransfer(q, a, b) ==
  LET b1 == GetSubgraphBoundary(q, a)
      b2 == GetSubgraphBoundary(q, b)
  IN SumFn([t \in b1.BoundaryOutputs \cap b2.BoundaryInputs |-> 2 * FullTensorSize(q, t)])
     + SumFn([t \in b2.BoundaryOutputs \cap b1.BoundaryInputs |-> 2 * FullTensorSize(q, t)])

\* Variant: any improvement is enough.
MergeImprovesAtAll(fusedLat, separateLat) == fusedLat < separateLat

\* fusedLat < separateLat * 0.90
MergeImproves(fusedLat, separateLat) ==
  IF separateLat >= Inf THEN fusedLat < Inf ELSE 10 * fusedLat < 9 * separateLat

\* The tests of the merge loop that come before the fused evaluation.
MergeAdmissible(q, grps, merged, g1, g2) ==
  /\ g1 \notin merged /\ g2 \notin merged
  /\ Len(grps[g1]) + Len(grps[g2]) <= MaxFusedOps
  /\ ~IsHeavy(q, grps[g1]) /\ ~IsHeavy(q, grps[g2])
  /\ isTopologicallyValid(q, grps[g1] \o grps[g2])

\* targetK: the smaller K of the baselines of the groups that hold a MatMul.
TargetK(q, grps, baselines, g1, g2) ==
  LET k1 == IF HasMatMul(q, grps[g1]) THEN baselines[g1].gran[3] ELSE 0
  IN IF HasMatMul(q, grps[g2]) /\ (k1 = 0 \/ baselines[g2].gran[3] < k1)
     THEN baselines[g2].gran[3] ELSE k1

\* The tests on the fused group: feasible, no padding beyond 5%, K kept to
\* at least half of targetK, and the 10% improvement.
MergeWorthwhile(q, grps, baselines, g1, g2, combined, fused) ==
  LET outT == q.Tensors[GetOutputTensor(q, combined)]
      targetK == TargetK(q, grps, baselines, g1, g2)
  IN /\ fused.feasible
     /\ ~(100 * fused.gran[1] > 105 * outT.Width)
     /\ ~(100 * fused.gran[2] > 105 * outT.Height)
     /\ ~(targetK > 1 /\ 2 * fused.gran[3] < targetK)
     /\ MergeImproves(fused.lat,
                      AddLat(AddLat(baselines[g1].lat, baselines[g2].lat),
                             BridgeTransfer(q, grps[g1], grps[g2])))

MergeOutcome(q, grps, merged, baselines, g1, g2, combined, fused) ==
  [accept |-> MergeAdmissible(q, grps, merged, g1, g2)
                /\ MergeWorthwhile(q, grps, baselines, g1, g2, combined, fused),
   combined |-> combined, lat |-> fused.lat, gran |-> fused.gran]

\* One candidate of the merge loop: the decision and, when accepted, the
\* combined group with its latency and granularity.
MergeDecision(q, grps, merged, baselines, cand) ==
  Only({MergeOutcome(q, grps, merged, baselines, cand.g1, cand.g2, combined,
                     TryFuseOps(q, combined, {}))
        : combined \in {sortOpsTopologically(q, grps[cand.g1] \o grps[cand.g2])}})

\* What an accepted merge does to the set of merged groups.
\* Variant: the absorbed group is not marked, so it stays in the result.
MarkMergedForgets(merged, g1, g2) == merged

\* Variant: the absorbing group is the one locked out.
MarkMergedAbsorber(merged, g1, g2) == merged \cup {g1}

MarkMerged(merged, g1, g2) == merged \cup {g2}

\* What the loop records of an accepted merge: the two groups as they stood,
\* their baselines, and the fused group with its latency.
Accepted(grps, baselines, cand, d) ==
  [g1 |-> cand.g1, g2 |-> cand.g2, ops1 |-> grps[cand.g1], ops2 |-> grps[cand.g2],
   base1 |-> baselines[cand.g1].lat, base2 |-> baselines[cand.g2].lat,
   combined |-> d.combined, lat |-> d.lat]

RECURSIVE MergeLoop(_, _, _, _, _, _)
MergeLoop(q, cands, grps, merged, baselines, log) ==
  IF cands = << >> THEN [groups |-> grps, merged |-> merged, log |-> log]
  ELSE Only({IF d.accept
             THEN MergeLoop(q, Tail(cands), [grps EXCEPT ![Head(cands).g1] = d.combined],
                            MarkMerged(merged, Head(cands).g1, Head(cands).g2),
                            [baselines EXCEPT ![Head(cands).g1] =
                                                [lat |-> d.lat, gran |-> d.gran]],
                            Append(log, Accepted(grps, baselines, Head(cands), d)))
             ELSE MergeLoop(q, Tail(cands), grps, merged, baselines, log)
             : d \in {MergeDecision(q, grps, merged, baselines, Head(cands))}})

\* The groups that were not absorbed, in slice order.
Unmerged(grps, r) ==
  SelectSeq([g \in DOMAIN grps |-> IF g \in r.merged THEN << >> ELSE r.groups[g]],
            LAMBDA g : g # << >>)

BaselineOf(t) == [lat |-> t.lat, gran |-> t.gran]

\* The merge loop of tryCrossChainFusion with its early return.
CrossChainLoop(q, grps, order) ==
  IF Len(grps) <= 1 THEN [groups |-> grps, merged |-> {}, log |-> << >>]
  ELSE MergeLoop(q, FusionCandidates(q, grps, order), grps, {},
                 [g \in DOMAIN grps |-> BaselineOf(TryFuseOps(q, grps[g], {}))], << >>)

tryCrossChainFusion(q, grps, order) == Unmerged(grps, CrossChainLoop(q, grps, order))

-----------------------------------------------------------------------------
(* Scheduler: BuildSchedule, one loop iteration at a time.                 *)

\* groupOf[op]: the last group, in slice order, that lists op; the map's
\* zero value, the first group, for an op that no group lists.
GroupOf(grps, op) ==
  IF \A g \in DOMAIN grps : ~containsInt(grps[g], op) THEN 1
  ELSE CHOOSE g \in DOMAIN grps :
         /\ containsInt(grps[g], op)
         /\ \A h \in DOMAIN grps : containsInt(grps[h], op) => h <= g

GroupDeps(q, grps, g) ==
  {GroupOf(grps, d) : d \in UNION {Range(Dependencies(q, o)) : o \in Range(grps[g])}}
    \ {g}

GroupDependents(q, grps, g) == {h \in DOMAIN grps : g \in GroupDeps(q, grps, h)}

computeAffinity(q, nextInputs, lastOutputs, lastInputs) ==
  SumFn([t \in nextInputs |->
           (IF t \in lastOutputs THEN 2 * FullTensorSize(q, t) ELSE 0)
           + (IF t \in lastInputs THEN FullTensorSize(q, t) ELSE 0)])

NoGroup == 0

ScheduleStart(q, grps) ==
  [order |-> << >>,
   remaining |-> DOMAIN grps,
   inDegree |-> [g \in DOMAIN grps |-> Cardinality(GroupDeps(q, grps, g))],
   lastScheduled |-> NoGroup]

\* The groups the loop body offers: those of in-degree 0, or every remaining
\* group when there is none (the cycle branch).
ReadyGroups(st) ==
  LET ready == {g \in st.remaining : st.inDegree[g] = 0}
  IN IF ready = {} THEN st.remaining ELSE ready

\* ready[0] after the optional sort: the map range leaves ready in any
\* order, and the sort puts a group of greatest affinity first.
Choosable(q, grps, st) ==
  LET ready == ReadyGroups(st)
      score(g) ==
        LET last == GetSubgraphBoundary(q, grps[st.lastScheduled])
        IN computeAffinity(q, GetSubgraphBoundary(q, grps[g]).BoundaryInputs,
                           last.BoundaryOutputs, last.BoundaryInputs)
  IN IF st.lastScheduled # NoGroup /\ Cardinality(ready) > 1
     THEN {g \in ready : \A h \in ready : score(g) >= score(h)}
     ELSE ready

ScheduleChoose(q, grps, st, chosen) ==
  [order |-> Append(st.order, chosen),
   remaining |-> st.remaining \ {chosen},
   inDegree |-> [g \in DOMAIN grps |->
                   IF g \in GroupDependents(q, grps, chosen) THEN st.inDegree[g] - 1
                   ELSE st.inDegree[g]],
   lastScheduled |-> chosen]

ScheduleEntries(grps, order) ==
  [i \in DOMAIN order |->
     [Ops |-> grps[order[i]], Granularity |-> <<0, 0, 0>>, Traversal |-> << >>,
      Retain |-> << >>, Latency |-> 0]]

\* The residency of entry i: what entry i-1 retains.
ResidentOf(sch, i) == IF i > 1 THEN Range(sch[i - 1].Retain) ELSE {}

\* Phase 4 of OptimizeSchedule.
InitialGranularity(q, sch) ==
  [i \in DOMAIN sch |->
     Only({[sch[i] EXCEPT !.Granularity = gran,
                          !.Traversal = BestTraversal(q, sch[i].Ops, gran)]
           : gran \in {FindBestGranularity(q, sch[i].Ops, ResidentOf(sch, i))}})]

-----------------------------------------------------------------------------
(* Retention planner (retention.go).  Savings are kept times 10*bandwidth  *)
(* so that the 0.3 decay is the integer 3.                                 *)

TileLoads(q, nextOps, nextGran, t) ==
  LET outT == q.Tensors[GetOutputTensor(q, nextOps)]
      nCols == CeilDiv(outT.Width, nextGran[1])
      nRows == CeilDiv(outT.Height, nextGran[2])
      nK == CeilDiv(GetMaxK(q, nextOps), nextGran[3])
      role == InputTileRole(q, nextOps, t)
  IN IF role = "LHS" THEN nRows * nK
     ELSE IF role = "RHS" THEN nCols * nK
     ELSE nCols * nRows

MaxLookahead == 4

RetentionSavings(q, sch, i, t) ==
  LET cur == GetSubgraphBoundary(q, sch[i].Ops)
      nxt == sch[i + 1]
      near ==
        IF t \in GetSubgraphBoundary(q, nxt.Ops).BoundaryInputs
        THEN 10 * InputTileSize(q, nxt.Ops, t, nxt.Granularity[1], nxt.Granularity[2],
                                nxt.Granularity[3])
                * TileLoads(q, nxt.Ops, nxt.Granularity, t)
             + (IF t \in cur.BoundaryOutputs THEN 10 * FullTensorSize(q, t) ELSE 0)
        ELSE 0
      far == SumFn([l \in 2..MinInt(MaxLookahead, Len(sch) - i) |->
                      IF t \in GetSubgraphBoundary(q, sch[i + l].Ops).BoundaryInputs
                      THEN 3 * FullTensorSize(q, t) ELSE 0])
  IN near + far

RetentionCandidates(q, sch, i, currentResident) ==
  {t \in GetSubgraphBoundary(q, sch[i].Ops).BoundaryOutputs \cup currentResident :
     RetentionSavings(q, sch, i, t) > 0}

\* The orders the map range and the sort on savings/size (descending) can
\* leave the candidates in.
RetentionOrders(q, sch, i, currentResident) ==
  IF i >= Len(sch) THEN {<< >>}
  ELSE {o \in Perms(RetentionCandidates(q, sch, i, currentResident)) :
          \A a, b \in DOMAIN o :
            a < b => RetentionSavings(q, sch, i, o[a]) * FullTensorSize(q, o[b])
                       >= RetentionSavings(q, sch, i, o[b]) * FullTensorSize(q, o[a])}

\* Variant: a tensor the next group does not read is taken to cost nothing.
AdditionalCostOfInputsOnly(q, nextOps, nextGran, t) ==
  IF t \in GetSubgraphBoundary(q, nextOps).BoundaryInputs
  THEN MaxInt(0, FullTensorSize(q, t)
                   - InputTileSize(q, nextOps, t, nextGran[1], nextGran[2], nextGran[3]))
  ELSE 0

\* The extra capacity a retained tensor takes in the next group.
AdditionalCost(q, nextOps, nextGran, t) ==
  IF t \in GetSubgraphBoundary(q, nextOps).BoundaryInputs
  THEN MaxInt(0, FullTensorSize(q, t)
                   - InputTileSize(q, nextOps, t, nextGran[1], nextGran[2], nextGran[3]))
  ELSE FullTensorSize(q, t)

RECURSIVE PackGreedy(_, _, _, _, _, _)
PackGreedy(q, nextOps, nextGran, cands, usedCapacity, availableCapacity) ==
  IF cands = << >> THEN << >>
  ELSE LET cost == AdditionalCost(q, nextOps, nextGran, Head(cands)) IN
       IF usedCapacity + cost <= availableCapacity
       THEN <<Head(cands)>> \o PackGreedy(q, nextOps, nextGran, Tail(cands),
                                          usedCapacity + cost, availableCapacity)
       ELSE PackGreedy(q, nextOps, nextGran, Tail(cands), usedCapacity,
                       availableCapacity)

PlanRetentionGlobal(q, i, sch, order) ==
  IF i >= Len(sch) THEN << >>
  ELSE LET nextOps == sch[i + 1].Ops
           nextGran == sch[i + 1].Granularity
           baseWS == ComputeWorkingSet(q, nextOps, nextGran, {})
       IN PackGreedy(q, nextOps, nextGran, order, 0, q.FastMemoryCapacity - baseWS)

\* PlanRetentionSimple (used by recovery): savings times bandwidth.
SimpleSavings(q, currentOps, nextOps, nextGran, t) ==
  InputTileSize(q, nextOps, t, nextGran[1], nextGran[2], nextGran[3])
    * TileLoads(q, nextOps, nextGran, t)
  + (IF t \in GetSubgraphBoundary(q, currentOps).BoundaryOutputs
     THEN FullTensorSize(q, t) ELSE 0)

SimpleCandidates(q, currentOps, nextOps, currentResident) ==
  (GetSubgraphBoundary(q, currentOps).BoundaryOutputs \cup currentResident)
    \cap GetSubgraphBoundary(q, nextOps).BoundaryInputs

\* Outputs are appended before residents and the sort keeps equal ratios
\* in that order.
SimpleOrders(q, currentOps, nextOps, nextGran, currentResident) ==
  LET outs == GetSubgraphBoundary(q, currentOps).BoundaryOutputs
      sv(t) == SimpleSavings(q, currentOps, nextOps, nextGran, t)
  IN {o \in Perms(SimpleCandidates(q, currentOps, nextOps, currentResident)) :
        \A a, b \in DOMAIN o :
          a < b =>
            /\ sv(o[a]) * FullTensorSize(q, o[b]) >= sv(o[b]) * FullTensorSize(q, o[a])
            /\ (sv(o[a]) * FullTensorSize(q, o[b]) = sv(o[b]) * FullTensorSize(q, o[a])
                  => ~(o[b] \in outs /\ o[a] \notin outs))}

PlanRetentionSimple(q, currentOps, nextOps, currentGran, nextGran, order) ==
  PackGreedy(q, nextOps, nextGran, order, 0,
             q.FastMemoryCapacity - ComputeWorkingSet(q, nextOps, nextGran, {}))

-----------------------------------------------------------------------------
(* Pipeline driver: phases 6 and 7 of OptimizeSchedule, recovery, baseline.*)

LatencyOrZero(r) == IF r.err THEN 0 ELSE r.lat

\* Variant: the stored latency is computed as if nothing were resident.
StoredLatencyColdStart(q, sch, i, gran, trav) ==
  LatencyOrZero(EvaluateSubgraphDetailed(q, sch[i].Ops, gran, sch[i].Retain, trav, {}))

\* The latency OptimizeSchedule stores on entry i in phase 6.
StoredLatency(q, sch, i, gran, trav) ==
  LatencyOrZero(EvaluateSubgraphDetailed(q, sch[i].Ops, gran, sch[i].Retain, trav,
                                         ResidentOf(sch, i)))

\* Phase 6: re-granularity where the retention-aware working set is over
\* capacity, then the stored latency.
Reshaped(q, sch, i, gran, trav) ==
  [sch[i] EXCEPT !.Granularity = gran, !.Traversal = trav,
                 !.Latency = StoredLatency(q, sch, i, gran, trav)]

Regranularity(q, sch) ==
  [i \in DOMAIN sch |->
     IF ComputeWorkingSetWithRetained(q, sch[i].Ops, sch[i].Granularity,
          ResidentOf(sch, i), sch[i].Retain) > q.FastMemoryCapacity
     THEN Only({Reshaped(q, sch, i, gran, BestTraversal(q, sch[i].Ops, gran))
                : gran \in {FindBestGranularityWithRetain(q, sch[i].Ops,
                               ResidentOf(sch, i), sch[i].Retain)}})
     ELSE Reshaped(q, sch, i, sch[i].Granularity, sch[i].Traversal)]

\* Variant: a removal that leaves the pair's total unchanged is kept too.
PruneKeepsTies(newTotal, currentTotal) == newTotal <= currentTotal

\* The test of pruneRetentions: keep a removal iff the pair's total drops.
PruneKeeps(newTotal, currentTotal) == newTotal < currentTotal

RemoveAt(s, r) == [j \in 1..(Len(s) - 1) |-> IF j < r THEN s[j] ELSE s[j + 1]]

RECURSIVE PruneRetained(_, _, _, _, _)
PruneRetained(q, sch, i, rIdx, improved) ==
  IF rIdx < 1 THEN [schedule |-> sch, improved |-> improved]
  ELSE
    LET hasNext == i + 1 <= Len(sch)
        currentTotal == sch[i].Latency + (IF hasNext THEN sch[i + 1].Latency ELSE 0)
        newRetain == RemoveAt(sch[i].Retain, rIdx)
        updated(latI, latNext) ==
          [j \in DOMAIN sch |->
             IF j = i THEN [sch[j] EXCEPT !.Retain = newRetain, !.Latency = latI]
             ELSE IF j = i + 1 THEN [sch[j] EXCEPT !.Latency = latNext]
             ELSE sch[j]]
    IN Only({IF rI.err \/ rNext.err THEN PruneRetained(q, sch, i, rIdx - 1, improved)
             ELSE IF PruneKeeps(rI.lat + rNext.lat, currentTotal)
             THEN PruneRetained(q, updated(rI.lat, rNext.lat), i, rIdx - 1, TRUE)
             ELSE PruneRetained(q, sch, i, rIdx - 1, improved)
             : rI \in {EvaluateSubgraphDetailed(q, sch[i].Ops, sch[i].Granularity,
                         newRetain, sch[i].Traversal, ResidentOf(sch, i))},
               rNext \in {IF hasNext
                          THEN EvaluateSubgraphDetailed(q, sch[i + 1].Ops,
                                 sch[i + 1].Granularity, sch[i + 1].Retain,
                                 sch[i + 1].Traversal, Range(newRetain))
                          ELSE [err |-> FALSE, lat |-> 0]}})

RECURSIVE PrunePass(_, _, _, _)
PrunePass(q, sch, i, improved) ==
  IF i > Len(sch) THEN [schedule |-> sch, improved |-> improved]
  ELSE Only({PrunePass(q, r.schedule, i + 1, r.improved)
             : r \in {PruneRetained(q, sch, i, Len(sch[i].Retain), improved)}})

RECURSIVE pruneRetentions(_, _)
pruneRetentions(q, sch) ==
  Only({IF r.improved THEN pruneRetentions(q, r.schedule) ELSE r.schedule
        : r \in {PrunePass(q, sch, 1, FALSE)}})

ToSubgraphs(sch) ==
  [i \in DOMAIN sch |->
     [Ops |-> sch[i].Ops, Granularity |-> sch[i].Granularity,
      TensorsToRetain |-> sch[i].Retain, TraversalOrder |-> sch[i].Traversal,
      SubgraphLatency |-> sch[i].Latency]]

\* One subgraph as recoverSolution and baselineSolution build it.
MakeSubgraph(q, ops, gran, retain, resident) ==
  Only({[Ops |-> ops, Granularity |-> gran, TensorsToRetain |-> retain,
         TraversalOrder |-> trav,
         SubgraphLatency |->
           LatencyOrZero(EvaluateSubgraphDetailed(q, ops, gran, retain, trav, resident))]
        : trav \in {BestTraversal(q, ops, gran)}})

\* The split branch of recoverSolution: one subgraph per op; the residency
\* is dropped after the first op, or before it when it does not fit.
RECURSIVE SplitGroup(_, _, _)
SplitGroup(q, ops, resident) ==
  IF ops = << >> THEN << >>
  ELSE Only({IF ComputeWorkingSet(q, <<Head(ops)>>, singleGran, resident)
                  > q.FastMemoryCapacity
             THEN <<MakeSubgraph(q, <<Head(ops)>>,
                                 FindBestGranularity(q, <<Head(ops)>>, {}), << >>, {})>>
             ELSE <<MakeSubgraph(q, <<Head(ops)>>, singleGran, << >>, resident)>>
             : singleGran \in {FindBestGranularity(q, <<Head(ops)>>, resident)}})
       \o SplitGroup(q, Tail(ops), {})

\* Whether recoverSolution splits group i of the broken solution.
RecoverSplits(q, broken, i, resident) ==
  Only({ComputeWorkingSet(q, ops, FindBestGranularity(q, ops, resident), resident)
          > q.FastMemoryCapacity
        : ops \in {sortOpsTopologically(q, broken[i].Ops)}})

RecoverOrders(q, broken, i, resident) ==
  IF i + 1 > Len(broken) \/ RecoverSplits(q, broken, i, resident) THEN {<< >>}
  ELSE Only({SimpleOrders(q, sortOpsTopologically(q, broken[i].Ops), nextOps,
                          FindBestGranularity(q, nextOps, {}), resident)
             : nextOps \in {sortOpsTopologically(q, broken[i + 1].Ops)}})

\* The retention recoverSolution plans for group i, dropped when it does
\* not fit.
RecoverRetain(q, broken, i, resident, order, ops, gran) ==
  IF i + 1 <= Len(broken)
  THEN Only({IF ComputeWorkingSetWithRetained(q, ops, gran, resident, planned)
                  > q.FastMemoryCapacity
             THEN << >> ELSE planned
             : planned \in
                 {Only({PlanRetentionSimple(q, ops, nextOps, gran,
                                            FindBestGranularity(q, nextOps, {}), order)
                        : nextOps \in {sortOpsTopologically(q, broken[i + 1].Ops)}})}})
  ELSE << >>

\* One iteration of recoverSolution's loop: the subgraphs it appends.
RecoverGroup(q, broken, i, resident, order) ==
  Only({Only({IF ComputeWorkingSet(q, ops, gran, resident) > q.FastMemoryCapacity
              THEN SplitGroup(q, ops, resident)
              ELSE <<MakeSubgraph(q, ops, gran,
                                  RecoverRetain(q, broken, i, resident, order, ops, gran),
                                  resident)>>
              : gran \in {FindBestGranularity(q, ops, resident)}})
        : ops \in {sortOpsTopologically(q, broken[i].Ops)}})

baselineSolution(q) ==
  LET topo == topologicalSort(q)
  IN [i \in DOMAIN topo |->
        MakeSubgraph(q, <<topo[i]>>, FindBestGranularity(q, <<topo[i]>>, {}), << >>, {})]

\* Variants: the error of the verification is ignored.
AfterEvaluateIgnoresError(err) == "done"

AfterRecoveryIgnoresError(err) == "done"

\* SolveOptimized's two tests on the error of EvaluateSolution.
AfterEvaluate(err) == IF err THEN "recover" ELSE "done"

AfterRecovery(err) == IF err THEN "baseline" ELSE "done"

-----------------------------------------------------------------------------
(* The problems the model runs the solver on.                              *)

MaxRuns == 2

MaxCapStep == 2

MaxBwExp == 1

MaxCostStep == 1

T(w, h) == [Width |-> w, Height |-> h]

PW(ins, outs, cost) ==
  [OpType |-> "Pointwise", Inputs |-> ins, Outputs |-> outs, BaseCost |-> cost]

MM(ins, outs, cost) ==
  [OpType |-> "MatMul", Inputs |-> ins, Outputs |-> outs, BaseCost |-> cost]

Problem(tensors, ops, cap, bw, native) ==
  [Tensors |-> Fn0(tensors), Ops |-> Fn0(ops), FastMemoryCapacity |-> cap,
   SlowMemoryBandwidth |-> bw, NativeGranularity |-> native]

Uniform(n, w, h) == [i \in 1..n |-> T(w, h)]

RECURSIVE Pow2(_)
Pow2(e) == IF e <= 0 THEN 1 ELSE 2 * Pow2(e - 1)

Bandwidths == {Pow2(e) : e \in 0..MaxBwExp}

CapSteps == 0..MaxCapStep

Costs == {3 * c : c \in 0..MaxCostStep}

\* One pointwise op on 2x2 tensors.
SingleOp(cap, bw, c) ==
  Problem(Uniform(2, 2, 2), <<PW(<<0>>, <<1>>, c)>>, cap, bw, <<2, 2>>)

\* Two independent pointwise ops.
TwoIndependent(cap, bw, c) ==
  Problem(Uniform(4, 2, 2), <<PW(<<0>>, <<1>>, c), PW(<<2>>, <<3>>, c)>>,
          cap, bw, <<2, 2>>)

\* MatMul (K = 4) feeding a pointwise op.
MatMulChain(cap, bw, c) ==
  Problem(<<T(4, 2), T(2, 4), T(2, 2), T(2, 2)>>,
          <<MM(<<0, 1>>, <<2>>, c), PW(<<2>>, <<3>>, 3)>>, cap, bw, <<2, 2>>)

\* A producer with two outputs, each read by its own pointwise op.
TwoOutputs(cap, bw, c) ==
  Problem(Uniform(5, 2, 2),
          <<PW(<<0>>, <<1, 2>>, c), PW(<<1>>, <<3>>, c), PW(<<2>>, <<4>>, c)>>,
          cap, bw, <<2, 2>>)

\* A chain of four two-input pointwise ops on 1x1 tensors.
ChainOfFour(cap, bw, c) ==
  Problem(Uniform(9, 1, 1),
          <<PW(<<0, 1>>, <<2>>, c), PW(<<2, 3>>, <<4>>, c), PW(<<4, 5>>, <<6>>, c),
            PW(<<6, 7>>, <<8>>, c)>>, cap, bw, <<1, 1>>)

\* Two pointwise ops reading one 1024x1 tensor.
SharedInput(cap, bw, c) ==
  Problem(Uniform(3, 1024, 1), <<PW(<<0>>, <<1>>, c), PW(<<0>>, <<2>>, c)>>,
          cap, bw, <<512, 1>>)

\* a1 -> b1 and b2 -> a2, with a1, a2 sharing X and b1, b2 sharing Y.
CrossedPairs(cap, bw, c) ==
  Problem(Uniform(8, 1024, 1),
          <<PW(<<0>>, <<2, 3>>, c), PW(<<1>>, <<4, 5>>, c),
            PW(<<1, 2>>, <<6>>, c), PW(<<0, 4>>, <<7>>, c)>>,
          cap, bw, <<512, 1>>)

\* A producer whose 1024x1 output is read by three pointwise ops.
Fanout(cap, bw, c) ==
  Problem(Uniform(5, 1024, 1),
          <<PW(<<0>>, <<1>>, c), PW(<<1>>, <<2>>, c), PW(<<1>>, <<3>>, c),
            PW(<<1>>, <<4>>, c)>>, cap, bw, <<512, 1>>)

\* One pointwise op on 1x32 tensors, native granularity 2x32.
Narrow(cap, bw, c) ==
  Problem(Uniform(2, 1, 32), <<PW(<<0>>, <<1>>, c)>>, cap, bw, <<2, 32>>)

\* A chain of three MatMul ops (K = 2) on 2x1024 activations with 2x2 weights,
\* each of base cost above the heavy threshold.
HeavyChain(cap, bw, c) ==
  Problem(<<T(2, 1024), T(2, 2), T(2, 1024), T(2, 2), T(2, 1024), T(2, 2), T(2, 1024)>>,
          <<MM(<<0, 1>>, <<2>>, HeavyCost + 1 + c), MM(<<2, 3>>, <<4>>, HeavyCost + 1 + c),
            MM(<<4, 5>>, <<6>>, HeavyCost + 1 + c)>>, cap, bw, <<2, 512>>)

\* Two readers of tensor 0 with an op between them: op 0 feeds op 1, op 1
\* feeds op 2, and op 2 reads tensor 0 too.  Ops 0 and 1 have a second output
\* each, which ends their chains.
Bypass(cap, bw, c) ==
  Problem(Uniform(7, 1024, 1),
          <<PW(<<0>>, <<1, 5>>, c), PW(<<1>>, <<2, 6>>, c), PW(<<0, 2>>, <<3>>, c)>>,
          cap, bw, <<512, 1>>)

\* The output of op 0 is read by op 1, which shares op 0's input, and by op 2.
FedSibling(cap, bw, c) ==
  Problem(Uniform(4, 1024, 1),
          <<PW(<<0>>, <<1>>, c), PW(<<0, 1>>, <<2>>, c), PW(<<1>>, <<3>>, c)>>,
          cap, bw, <<512, 1>>)

Problems ==
  UNION {
    {SingleOp(1 + 3 * s, bw, c), TwoIndependent(1 + 4 * s, bw, c),
     MatMulChain(6 + 6 * s, bw, c), TwoOutputs(8 + 4 * s, bw, c),
     ChainOfFour(2 + s, bw, c),
     SharedInput(1024 + 1024 * s, bw, c), CrossedPairs(2048 + 2048 * s, bw, c),
     Fanout(2048 + 1024 * s, bw, 316 * c), Narrow(2 + 2 * s, bw, c),
     HeavyChain(2056 + 1026 * s, bw, c), Bypass(2048 + 1024 * s, bw, c),
     FedSibling(2048, bw, 0)}
    : s \in CapSteps, bw \in Bandwidths, c \in Costs}

-----------------------------------------------------------------------------
(* The solver as a state machine: SolveOptimized, phase by phase.          *)

NoOrders == [baseline |-> << >>, sol1 |-> << >>, sol2 |-> << >>]

NoSizes == [baseline |-> 0, sol1 |-> 0, sol2 |-> 0]

NoFusion == [chain |-> << >>, stack |-> << >>, out |-> << >>, timedOut |-> FALSE,
             tripped |-> {}]

EmptySched == [order |-> << >>, remaining |-> {}, inDegree |-> << >>,
               lastScheduled |-> NoGroup]

Start(q, r, f) ==
  /\ p = q
  /\ pc = "fuse"
  /\ run = r
  /\ first = f
  /\ groups = << >>
  /\ sched = EmptySched
  /\ schedule = << >>
  /\ idx = 0
  /\ optSol = << >>
  /\ recSol = << >>
  /\ sol = << >>
  /\ evalOk = FALSE
  /\ trail = << >>
  /\ merges = << >>
  /\ orders = NoOrders
  /\ sizes = NoSizes
  /\ fusion = NoFusion

Init == \E q \in Problems : Start(q, 1, << >>)

\* OptimizeSchedule phase 1: chains and intra-chain fusion.
FuseChains ==
  /\ pc = "fuse"
  /\ groups' = ChainFusion(p)
  /\ pc' = "cross"
  /\ UNCHANGED <<p, run, first, sched, schedule, idx, optSol, recSol, sol, evalOk, trail,
                 merges, orders, sizes, fusion>>

\* OptimizeSchedule phase 2, and the set-up of BuildSchedule.
CrossChainFuse ==
  /\ pc = "cross"
  /\ \E order \in TensorOrders(p, groups) :
       /\ groups' = tryCrossChainFusion(p, groups, order)
       /\ merges' = CrossChainLoop(p, groups, order).log
       /\ sched' = ScheduleStart(p, groups')
  /\ pc' = "order"
  /\ UNCHANGED <<p, run, first, schedule, idx, optSol, recSol, sol, evalOk, trail, orders, sizes, fusion>>

\* One iteration of BuildSchedule's loop.
ScheduleStep ==
  /\ pc = "order"
  /\ Len(sched.order) < Len(groups)
  /\ \E chosen \in Choosable(p, groups, sched) :
       sched' = ScheduleChoose(p, groups, sched, chosen)
  /\ UNCHANGED <<p, pc, run, first, groups, schedule, idx, optSol, recSol, sol,
                 evalOk, trail, merges, orders, sizes, fusion>>

\* The end of BuildSchedule and phase 4.
OptimizeGranularity ==
  /\ pc = "order"
  /\ Len(sched.order) >= Len(groups)
  /\ schedule' = InitialGranularity(p, ScheduleEntries(groups, sched.order))
  /\ idx' = 1
  /\ pc' = "retain"
  /\ UNCHANGED <<p, run, first, groups, sched, optSol, recSol, sol, evalOk, trail, merges,
                 orders, sizes, fusion>>

\* One iteration of phase 5.
PlanRetention ==
  /\ pc = "retain"
  /\ idx <= Len(schedule)
  /\ \E order \in RetentionOrders(p, schedule, idx, ResidentOf(schedule, idx)) :
       schedule' = [schedule EXCEPT ![idx].Retain =
                      PlanRetentionGlobal(p, idx, schedule, order)]
  /\ idx' = idx + 1
  /\ UNCHANGED <<p, pc, run, first, groups, sched, optSol, recSol, sol, evalOk, trail, merges,
                 orders, sizes, fusion>>

\* Phase 6.
Reoptimize ==
  /\ pc = "retain"
  /\ idx > Len(schedule)
  /\ schedule' = Regranularity(p, schedule)
  /\ pc' = "prune"
  /\ UNCHANGED <<p, run, first, groups, sched, idx, optSol, recSol, sol, evalOk, trail, merges,
                 orders, sizes, fusion>>

\* Phase 7 and the solution OptimizeSchedule returns.
Prune ==
  /\ pc = "prune"
  /\ schedule' = pruneRetentions(p, schedule)
  /\ optSol' = ToSubgraphs(schedule')
  /\ sol' = optSol'
  /\ pc' = "evaluate"
  /\ UNCHANGED <<p, run, first, groups, sched, idx, recSol, evalOk, trail, merges, orders, sizes, fusion>>

\* SolveOptimized's final verification.
Evaluate ==
  /\ pc = "evaluate"
  /\ \E r \in {EvaluateSolution(p, sol)} :
       /\ evalOk' = ~r.err
       /\ pc' = AfterEvaluate(r.err)
       /\ trail' = Append(trail, IF r.err THEN "rejected" ELSE "accepted")
  /\ idx' = 1
  /\ UNCHANGED <<p, run, first, groups, sched, schedule, optSol, recSol, sol, merges, orders,
                 sizes, fusion>>

\* One iteration of recoverSolution's loop.
Recover ==
  /\ pc = "recover"
  /\ idx <= Len(optSol)
  /\ \E order \in RecoverOrders(p, optSol, idx, ResidentBefore(recSol, Len(recSol) + 1)) :
       recSol' = recSol \o RecoverGroup(p, optSol, idx,
                                        ResidentBefore(recSol, Len(recSol) + 1), order)
  /\ idx' = idx + 1
  /\ trail' = IF idx = 1 THEN Append(trail, "recovery") ELSE trail
  /\ UNCHANGED <<p, pc, run, first, groups, sched, schedule, optSol, sol, evalOk, merges,
                 orders, sizes, fusion>>

\* The verification of the recovered solution.
Reevaluate ==
  /\ pc = "recover"
  /\ idx > Len(optSol)
  /\ sol' = recSol
  /\ \E r \in {EvaluateSolution(p, recSol)} :
       /\ evalOk' = ~r.err
       /\ pc' = AfterRecovery(r.err)
       /\ trail' = Append(trail, IF r.err THEN "rejected" ELSE "accepted")
  /\ UNCHANGED <<p, run, first, groups, sched, schedule, idx, optSol, recSol, merges, orders,
                 sizes, fusion>>

\* The last resort.
Baseline ==
  /\ pc = "baseline"
  /\ sol' = baselineSolution(p)
  /\ evalOk' = ~EvaluateSolution(p, sol').err
  /\ trail' = Append(trail, "baseline")
  /\ pc' = "done"
  /\ UNCHANGED <<p, run, first, groups, sched, schedule, idx, optSol, recSol, merges, orders,
                 sizes, fusion>>

\* SolveOptimized is called again on the same problem.
Rerun ==
  /\ pc = "done"
  /\ run < MaxRuns
  /\ pc' = "fuse"
  /\ run' = run + 1
  /\ first' = IF run = 1 THEN sol ELSE first
  /\ groups' = << >>
  /\ sched' = EmptySched
  /\ schedule' = << >>
  /\ idx' = 0
  /\ optSol' = << >>
  /\ recSol' = << >>
  /\ sol' = << >>
  /\ evalOk' = FALSE
  /\ trail' = << >>
  /\ merges' = << >>
  /\ UNCHANGED <<p, orders, sizes, fusion>>

Next ==
  \/ FuseChains
  \/ CrossChainFuse
  \/ ScheduleStep
  \/ OptimizeGranularity
  \/ PlanRetention
  \/ Reoptimize
  \/ Prune
  \/ Evaluate
  \/ Recover
  \/ Reevaluate
  \/ Baseline
  \/ Rerun

Spec == Init /\ [][Next]_vars

-----------------------------------------------------------------------------
(* EvaluateSolution and findSmallestFeasible applied to arbitrary          *)
(* solutions: every list of at most MaxParts op lists over a problem's     *)
(* ops, missing and repeated ops included.                                 *)

MaxParts == 2

EvalProblems ==
  UNION {{TwoIndependent(1 + 2 * s, 1, 3), MatMulChain(1 + 2 * s, 1, 3)} : s \in CapSteps}

OpLists(q) == UNION {[1..n -> OpIds(q)] : n \in 0..NumOps(q)}

Shapes(q) == {<<1, 1, 1>>, <<q.NativeGranularity[1], q.NativeGranularity[2], 1>>,
              <<0, 1, 1>>}

\* A solution of the given op lists: one shape for all, and the first
\* subgraph retaining its primary output or nothing.
Candidate(q, parts, gran, retains) ==
  [i \in DOMAIN parts |->
     [Ops |-> parts[i], Granularity |-> gran,
      TensorsToRetain |-> IF retains /\ i = 1 /\ parts[i] # << >>
                          THEN <<GetOutputTensor(q, parts[i])>> ELSE << >>,
      TraversalOrder |-> << >>, SubgraphLatency |-> 0]]

Candidates(q) ==
  {Candidate(q, parts, gran, retains) :
     parts \in UNION {[1..n -> OpLists(q)] : n \in 1..MaxParts},
     gran \in Shapes(q), retains \in BOOLEAN}

InitEval ==
  \E q \in EvalProblems : \E s \in Candidates(q) :
    /\ p = q
    /\ pc = "shape"
    /\ sol = s
    /\ run = 1
    /\ first = << >>
    /\ groups = << >>
    /\ sched = EmptySched
    /\ schedule = << >>
    /\ idx = 0
    /\ optSol = << >>
    /\ recSol = << >>
    /\ evalOk = FALSE
    /\ trail = << >>
    /\ merges = << >>
    /\ orders = NoOrders
    /\ sizes = NoSizes
    /\ fusion = NoFusion

\* findSmallestFeasible on each op list of the solution, empty residency.
Shape ==
  /\ pc = "shape"
  /\ schedule' = [i \in DOMAIN sol |->
                    [Ops |-> sol[i].Ops,
                     Granularity |-> findSmallestFeasible(p, sol[i].Ops, {}),
                     Traversal |-> << >>, Retain |-> << >>, Latency |-> 0]]
  /\ pc' = "verify"
  /\ UNCHANGED <<p, run, first, groups, sched, idx, optSol, recSol, sol, evalOk, trail, merges,
                 orders, sizes, fusion>>

\* EvaluateSolution on the solution.
Verify ==
  /\ pc = "verify"
  /\ evalOk' = ~EvaluateSolution(p, sol).err
  /\ pc' = "verified"
  /\ UNCHANGED <<p, run, first, groups, sched, schedule, idx, optSol, recSol, sol, trail,
                 merges, orders, sizes, fusion>>

NextEval ==
  \/ Shape
  \/ Verify

SpecEval == InitEval /\ [][NextEval]_vars

-----------------------------------------------------------------------------
(* Graph analysis on its own: the three topological sorts and              *)
(* FindLinearChains on every acyclic graph of three ops in which op 0      *)
(* produces tensors 1 and 2, op 1 tensor 3, op 2 tensor 4, and each op     *)
(* reads up to MaxInputs tensors (op 0: the graph input 0 up to MaxInputs  *)
(* times, or the outputs of the other ops).  The analyses do not look at   *)
(* the order of an op's inputs, so the input lists are drawn in ascending  *)
(* order.                                                                  *)

MaxInputs == 3

InputLists(ts) ==
  {l \in UNION {[1..n -> ts] : n \in 1..MaxInputs} :
     \A i, j \in DOMAIN l : i < j => l[i] <= l[j]}

Graph(in0, in1, in2) ==
  Problem(Uniform(5, 1, 1),
          <<PW(in0, <<1, 2>>, 0), PW(in1, <<3>>, 0), PW(in2, <<4>>, 0)>>, 2, 1, <<1, 1>>)

Acyclic(q) == \A i \in OpIds(q) : i \notin AllAncestorOps(q, i)

GraphProblems ==
  {q \in {Graph(in0, in1, in2) : in0 \in InputLists({0}) \cup {<<3>>, <<4>>, <<3, 4>>},
                                 in1 \in InputLists({0, 1, 2, 4}),
                                 in2 \in InputLists({0, 1, 2, 3})} : Acyclic(q)}

InitGraph ==
  \E q \in GraphProblems :
    /\ p = q
    /\ pc = "baseline sort"
    /\ run = 1
    /\ first = << >>
    /\ groups = << >>
    /\ sched = EmptySched
    /\ schedule = << >>
    /\ idx = 0
    /\ optSol = << >>
    /\ recSol = << >>
    /\ sol = << >>
    /\ evalOk = FALSE
    /\ trail = << >>
    /\ merges = << >>
    /\ orders = NoOrders
    /\ sizes = NoSizes
    /\ fusion = NoFusion

SortBaseline ==
  /\ pc = "baseline sort"
  /\ orders' = [orders EXCEPT !.baseline = TopologicalSort(p)]
  /\ pc' = "sol1 sort"
  /\ UNCHANGED <<p, run, first, groups, sched, schedule, idx, optSol, recSol, sol, evalOk,
                 trail, merges, sizes, fusion>>

SortSol1 ==
  /\ pc = "sol1 sort"
  /\ orders' = [orders EXCEPT !.sol1 = Sol1TopologicalSort(p)]
  /\ pc' = "sol2 sort"
  /\ UNCHANGED <<p, run, first, groups, sched, schedule, idx, optSol, recSol, sol, evalOk,
                 trail, merges, sizes, fusion>>

SortSol2 ==
  /\ pc = "sol2 sort"
  /\ orders' = [orders EXCEPT !.sol2 = topologicalSort(p)]
  /\ pc' = "chains"
  /\ UNCHANGED <<p, run, first, groups, sched, schedule, idx, optSol, recSol, sol, evalOk,
                 trail, merges, sizes, fusion>>

Chains ==
  /\ pc = "chains"
  /\ groups' = FindLinearChains(p)
  /\ pc' = "analyzed"
  /\ UNCHANGED <<p, run, first, sched, schedule, idx, optSol, recSol, sol, evalOk, trail,
                 merges, orders, sizes, fusion>>

NextGraph ==
  \/ SortBaseline
  \/ SortSol1
  \/ SortSol2
  \/ Chains

SpecGraph == InitGraph /\ [][NextGraph]_vars

-----------------------------------------------------------------------------
(* The three ComputeWorkingSet implementations on one subgraph: every op   *)
(* list of the MatMul chain, every tile shape up to MaxTile (k up to twice *)
(* that) and every residency set.  The subgraph is sol[2]; the residency   *)
(* is what sol[1] retains, as EvaluateSolution passes it.                  *)

MaxTile == 2

TileShapes == {<<w, h, k>> : w \in 1..MaxTile, h \in 1..MaxTile, k \in 1..(2 * MaxTile)}

Measured(ops, gran, resident) ==
  <<[Ops |-> << >>, Granularity |-> <<1, 1, 1>>, TensorsToRetain |-> SortedAsc(resident),
     TraversalOrder |-> << >>, SubgraphLatency |-> 0],
    [Ops |-> ops, Granularity |-> gran, TensorsToRetain |-> << >>,
     TraversalOrder |-> << >>, SubgraphLatency |-> 0]>>

InitWS ==
  \E ops \in {<<0>>, <<1>>, <<0, 1>>, <<1, 0>>}, gran \in TileShapes,
     resident \in SUBSET (0..3) :
    /\ p = MatMulChain(8, 1, 3)
    /\ pc = "baseline ws"
    /\ sol = Measured(ops, gran, resident)
    /\ run = 1
    /\ first = << >>
    /\ groups = << >>
    /\ sched = EmptySched
    /\ schedule = << >>
    /\ idx = 0
    /\ optSol = << >>
    /\ recSol = << >>
    /\ evalOk = FALSE
    /\ trail = << >>
    /\ merges = << >>
    /\ orders = NoOrders
    /\ sizes = NoSizes
    /\ fusion = NoFusion

MeasureBaseline ==
  /\ pc = "baseline ws"
  /\ sizes' = [sizes EXCEPT !.baseline =
              BaselineComputeWorkingSet(p, sol[2], Range(sol[1].TensorsToRetain))]
  /\ pc' = "sol1 ws"
  /\ UNCHANGED <<p, run, first, groups, sched, schedule, idx, optSol, recSol, sol, evalOk,
                 trail, merges, orders, fusion>>

MeasureSol1 ==
  /\ pc = "sol1 ws"
  /\ sizes' = [sizes EXCEPT !.sol1 =
              Sol1ComputeWorkingSet(p, sol[2].Ops, sol[2].Granularity,
                                    Range(sol[1].TensorsToRetain))]
  /\ pc' = "sol2 ws"
  /\ UNCHANGED <<p, run, first, groups, sched, schedule, idx, optSol, recSol, sol, evalOk,
                 trail, merges, orders, fusion>>

MeasureSol2 ==
  /\ pc = "sol2 ws"
  /\ sizes' = [sizes EXCEPT !.sol2 =
              ComputeWorkingSet(p, sol[2].Ops, sol[2].Granularity,
                                Range(sol[1].TensorsToRetain))]
  /\ pc' = "measured"
  /\ UNCHANGED <<p, run, first, groups, sched, schedule, idx, optSol, recSol, sol, evalOk,
                 trail, merges, orders, fusion>>

NextWS ==
  \/ MeasureBaseline
  \/ MeasureSol1
  \/ MeasureSol2

SpecWS == InitWS /\ [][NextWS]_vars

-----------------------------------------------------------------------------
(* The granularity search on its own: FindBestGranularity and              *)
(* FindBestGranularityWithRetain on one subgraph under every residency     *)
(* set of its boundary inputs, with and without its output retained, for   *)
(* every capacity up to MaxGranCap.  The subgraph is sol[2], its retained  *)
(* tensors those of sol[2], the residency what sol[1] retains.  Inputs     *)
(* whose candidate list is longer than InsertionSortMax are left out:      *)
(* sort.Slice orders longer slices with another algorithm.                 *)

MaxGranCap == 20

InsertionSortMax == 12

\* One MatMul (K = 2) with a 4x2 output.
WideMatMul(cap, bw, c, native) ==
  Problem(<<T(2, 2), T(4, 2), T(4, 2)>>, <<MM(<<0, 1>>, <<2>>, c)>>, cap, bw, native)

GranProblems ==
  UNION {{WideMatMul(cap, bw, c, native) : native \in {<<2, 2>>, <<2, 1>>, <<1, 2>>}}
           \cup {MatMulChain(cap, bw, c), Narrow(cap, bw, c)}
         : cap \in 1..MaxGranCap, bw \in Bandwidths, c \in Costs}

\* The op lists searched: every run of consecutive ops.
GranOps(q) == {[i \in 1..n |-> first0 + i - 1] : first0 \in OpIds(q), n \in 1..NumOps(q)}

Searched(q, ops, resident, retains) ==
  <<[Ops |-> << >>, Granularity |-> <<1, 1, 1>>, TensorsToRetain |-> SortedAsc(resident),
     TraversalOrder |-> << >>, SubgraphLatency |-> 0],
    [Ops |-> ops, Granularity |-> <<1, 1, 1>>,
     TensorsToRetain |-> IF retains THEN <<GetOutputTensor(q, ops)>> ELSE << >>,
     TraversalOrder |-> << >>, SubgraphLatency |-> 0]>>

InitGran ==
  \E q \in GranProblems :
    \E ops \in {o \in GranOps(q) : Range(o) \subseteq OpIds(q)} :
      \E resident \in SUBSET GetSubgraphBoundary(q, ops).BoundaryInputs, retains \in BOOLEAN :
        /\ Len(generateCandidates(q, ops, resident)) <= InsertionSortMax
        /\ p = q
        /\ pc = "search"
        /\ sol = Searched(q, ops, resident, retains)
        /\ run = 1
        /\ first = << >>
        /\ groups = << >>
        /\ sched = EmptySched
        /\ schedule = << >>
        /\ idx = 0
        /\ optSol = << >>
        /\ recSol = << >>
        /\ evalOk = FALSE
        /\ trail = << >>
        /\ merges = << >>
        /\ orders = NoOrders
        /\ sizes = NoSizes
        /\ fusion = NoFusion

Found(ops, gran) ==
  [Ops |-> ops, Granularity |-> gran, Traversal |-> << >>, Retain |-> << >>, Latency |-> 0]

\* FindBestGranularity: the result is schedule[1].
SearchPlain ==
  /\ pc = "search"
  /\ schedule' = <<Found(sol[2].Ops, FindBestGranularity(p, sol[2].Ops,
                                                         Range(sol[1].TensorsToRetain)))>>
  /\ pc' = "search with retain"
  /\ UNCHANGED <<p, run, first, groups, sched, idx, optSol, recSol, sol, evalOk, trail, merges,
                 orders, sizes, fusion>>

\* FindBestGranularityWithRetain: the result is schedule[2].
SearchWithRetain ==
  /\ pc = "search with retain"
  /\ schedule' = Append(schedule,
                        Found(sol[2].Ops,
                              FindBestGranularityWithRetain(p, sol[2].Ops,
                                Range(sol[1].TensorsToRetain), sol[2].TensorsToRetain)))
  /\ pc' = "searched"
  /\ UNCHANGED <<p, run, first, groups, sched, idx, optSol, recSol, sol, evalOk, trail, merges,
                 orders, sizes, fusion>>

NextGran ==
  \/ SearchPlain
  \/ SearchWithRetain

SpecGran == InitGran /\ [][NextGran]_vars

-----------------------------------------------------------------------------
(* The retention planners on their own: PlanRetentionGlobal and            *)
(* PlanRetentionSimple at every position of every split of the             *)
(* topological order into runs, with one tile shape for all groups, every  *)
(* capacity up to MaxGranCap and every residency of tensors that no group  *)
(* from the current one on produces.  The residency is what sol[1]         *)
(* retains; PlanRetentionGlobal's result goes to schedule[idx].Retain,     *)
(* PlanRetentionSimple's to recSol.                                        *)

PlanProblems ==
  UNION {{TwoOutputs(cap, bw, 3), MatMulChain(cap, bw, 3)}
         : cap \in 1..MaxGranCap, bw \in Bandwidths}

\* The runs of s that end at the given positions (ascending, the last is Len(s)).
RunsOf(s, ends) ==
  [j \in DOMAIN ends |-> SubSeq(s, IF j = 1 THEN 1 ELSE ends[j - 1] + 1, ends[j])]

SplitsOf(s) == {RunsOf(s, SortedAsc(cuts \cup {Len(s)})) : cuts \in SUBSET (1..(Len(s) - 1))}

PlanShapes(q) == {g \in TileShapes : g[3] = 1 \/ \E op \in OpIds(q) : q.Ops[op].OpType = "MatMul"}

Planned(runs, gran) ==
  [i \in DOMAIN runs |->
     [Ops |-> runs[i], Granularity |-> gran, Traversal |-> << >>, Retain |-> << >>,
      Latency |-> 0]]

\* The tensors no group from position i on produces.
ProducedEarlier(q, runs, i) ==
  DOMAIN q.Tensors
    \ UNION {GetSubgraphBoundary(q, runs[j]).AllProduced : j \in i..Len(runs)}

InitPlan ==
  \E q \in PlanProblems :
    \E runs \in SplitsOf(topologicalSort(q)), gran \in PlanShapes(q) :
      \E i \in DOMAIN runs :
        \E resident \in SUBSET ProducedEarlier(q, runs, i) :
          /\ p = q
          /\ pc = "plan global"
          /\ schedule = Planned(runs, gran)
          /\ idx = i
          /\ sol = Searched(q, runs[i], resident, FALSE)
          /\ run = 1
          /\ first = << >>
          /\ groups = << >>
          /\ sched = EmptySched
          /\ optSol = << >>
          /\ recSol = << >>
          /\ evalOk = FALSE
          /\ trail = << >>
          /\ merges = << >>
          /\ orders = NoOrders
          /\ sizes = NoSizes
          /\ fusion = NoFusion

PlanGlobal ==
  /\ pc = "plan global"
  /\ \E order \in RetentionOrders(p, schedule, idx, Range(sol[1].TensorsToRetain)) :
       schedule' = [schedule EXCEPT ![idx].Retain =
                      PlanRetentionGlobal(p, idx, schedule, order)]
  /\ pc' = "plan simple"
  /\ UNCHANGED <<p, run, first, groups, sched, idx, optSol, recSol, sol, evalOk, trail, merges,
                 orders, sizes, fusion>>

\* PlanRetentionSimple returns nothing when there is no next group.
PlanSimple ==
  /\ pc = "plan simple"
  /\ IF idx >= Len(schedule)
     THEN recSol' = <<[sol[2] EXCEPT !.TensorsToRetain = << >>]>>
     ELSE \E order \in SimpleOrders(p, schedule[idx].Ops, schedule[idx + 1].Ops,
                                     schedule[idx + 1].Granularity,
                                     Range(sol[1].TensorsToRetain)) :
            recSol' = <<[sol[2] EXCEPT !.TensorsToRetain =
                           PlanRetentionSimple(p, schedule[idx].Ops, schedule[idx + 1].Ops,
                                               schedule[idx].Granularity,
                                               schedule[idx + 1].Granularity, order)]>>
  /\ pc' = "planned"
  /\ UNCHANGED <<p, run, first, groups, sched, schedule, idx, optSol, sol, evalOk, trail,
                 merges, orders, sizes, fusion>>

NextPlan ==
  \/ PlanGlobal
  \/ PlanSimple

SpecPlan == InitPlan /\ [][NextPlan]_vars

-----------------------------------------------------------------------------
(* The sol-1 fusion search on one chain: TryFuseChainSmart.  The recursion *)
(* of tryFuseChainWithContext and splitChainBinary is unfolded on a stack  *)
(* of frames: a "call" frame is an entry of tryFuseChainWithContext with   *)
(* the value ctx.CurrentDepth has there, a "join" frame is the comparison  *)
(* of the split with the unfused baseline that follows the return of both  *)
(* halves.  The three latency comparisons of the search are taken both     *)
(* ways; the wall clock passes its limit at any entry, and stays past it.  *)

MaxChain == 9

TimeoutSec == 30

MaxDepth == 5

LongChain == 8

ChunkSize == 4

PointwiseChain(n) ==
  Problem(Uniform(n + 1, 1, 1), [i \in 1..n |-> PW(<<i - 1>>, <<i>>, 1)], 4, 1, <<1, 1>>)

ChainOf(n) == [i \in 1..n |-> i - 1]

CallFrame(chain, depth) == [kind |-> "call", chain |-> chain, depth |-> depth, mark |-> 0]

JoinFrame(chain, depth, mark) == [kind |-> "join", chain |-> chain, depth |-> depth, mark |-> mark]

NewFusionContext(chain) ==
  [chain |-> chain, stack |-> <<CallFrame(chain, 0)>>, out |-> << >>, timedOut |-> FALSE,
   tripped |-> {}]

TryFuseChainSmart(n) ==
  /\ p = PointwiseChain(n)
  /\ pc = "fuse"
  /\ fusion = NewFusionContext(ChainOf(n))
  /\ run = 1
  /\ first = << >>
  /\ groups = << >>
  /\ sched = EmptySched
  /\ schedule = << >>
  /\ idx = 0
  /\ optSol = << >>
  /\ recSol = << >>
  /\ sol = << >>
  /\ evalOk = FALSE
  /\ trail = << >>
  /\ merges = << >>
  /\ orders = NoOrders
  /\ sizes = NoSizes

InitFusion == \E n \in 1..MaxChain : TryFuseChainSmart(n)

noFusionFallback(chain) == [i \in 1..Len(chain) |-> <<chain[i]>>]

RECURSIVE splitLongChain(_)
splitLongChain(chain) ==
  IF chain = << >> THEN << >>
  ELSE LET end == MinInt(ChunkSize, Len(chain))
       IN <<SubSeq(chain, 1, end)>> \o splitLongChain(SubSeq(chain, end + 1, Len(chain)))

LeftHalfSkipsOne(chain) == SubSeq(chain, 1, (Len(chain) \div 2) - 1)

LeftHalf(chain) == SubSeq(chain, 1, Len(chain) \div 2)

RightHalf(chain) == SubSeq(chain, (Len(chain) \div 2) + 1, Len(chain))

ShouldStop(elapsed, currentDepth) == elapsed > TimeoutSec \/ currentDepth > MaxDepth

Entered == fusion.stack # << >> /\ Head(fusion.stack).kind = "call"

Joining == fusion.stack # << >> /\ Head(fusion.stack).kind = "join"

FusionUnchanged ==
  UNCHANGED <<p, run, first, groups, sched, schedule, idx, optSol, recSol,
              sol, evalOk, trail, merges, orders, sizes>>

Goes(stack, out, timedOut, tripped) ==
  /\ fusion' = [fusion EXCEPT !.stack = stack, !.out = out, !.timedOut = timedOut,
                              !.tripped = tripped]
  /\ pc' = IF stack = << >> THEN "fused" ELSE "fuse"
  /\ FusionUnchanged

GuardTrips ==
  /\ Entered
  /\ LET f == Head(fusion.stack)
     IN \E elapsed \in {TimeoutSec, TimeoutSec + 1} :
          /\ ShouldStop(IF fusion.timedOut THEN TimeoutSec + 1 ELSE elapsed, f.depth)
          /\ Goes(Tail(fusion.stack), fusion.out \o noFusionFallback(f.chain),
                  fusion.timedOut \/ elapsed > TimeoutSec, fusion.tripped \cup {f.chain})

InTime ==
  /\ Entered
  /\ ~ShouldStop(IF fusion.timedOut THEN TimeoutSec + 1 ELSE TimeoutSec,
                 Head(fusion.stack).depth)

FuseSingle ==
  /\ InTime
  /\ Len(Head(fusion.stack).chain) = 1
  /\ Goes(Tail(fusion.stack), Append(fusion.out, Head(fusion.stack).chain),
          fusion.timedOut, fusion.tripped)

SplitLong ==
  /\ InTime
  /\ Len(Head(fusion.stack).chain) > LongChain
  /\ Goes(Tail(fusion.stack), fusion.out \o splitLongChain(Head(fusion.stack).chain),
          fusion.timedOut, fusion.tripped)

Fusable ==
  /\ InTime
  /\ Len(Head(fusion.stack).chain) > 1
  /\ Len(Head(fusion.stack).chain) <= LongChain

splitChainBinary(chain, depth) ==
  IF Len(chain) <= 1 THEN <<CallFrame(chain, depth)>>
  ELSE <<CallFrame(LeftHalf(chain), depth), CallFrame(RightHalf(chain), depth)>>

SplitUnreasonable ==
  /\ Fusable
  /\ LET f == Head(fusion.stack)
     IN Goes(splitChainBinary(f.chain, f.depth + 1) \o Tail(fusion.stack), fusion.out,
             fusion.timedOut, fusion.tripped)

FuseWhole ==
  /\ Fusable
  /\ Goes(Tail(fusion.stack), Append(fusion.out, Head(fusion.stack).chain),
          fusion.timedOut, fusion.tripped)

SplitAndCompare ==
  /\ Fusable
  /\ LET f == Head(fusion.stack)
     IN Goes(splitChainBinary(f.chain, f.depth + 1)
               \o <<JoinFrame(f.chain, f.depth, Len(fusion.out))>> \o Tail(fusion.stack),
             fusion.out, fusion.timedOut, fusion.tripped)

KeepSplit ==
  /\ Joining
  /\ Goes(Tail(fusion.stack), fusion.out, fusion.timedOut, fusion.tripped)

DropSplit ==
  /\ Joining
  /\ LET f == Head(fusion.stack)
     IN Goes(Tail(fusion.stack),
             SubSeq(fusion.out, 1, f.mark) \o noFusionFallback(f.chain),
             fusion.timedOut, fusion.tripped)

NextFusion ==
  \/ GuardTrips
  \/ FuseSingle
  \/ SplitLong
  \/ SplitUnreasonable
  \/ FuseWhole
  \/ SplitAndCompare
  \/ KeepSplit
  \/ DropSplit

SpecFusion == InitFusion /\ [][NextFusion]_vars /\ WF_vars(NextFusion)

-----------------------------------------------------------------------------
(* The two snake traversals on their own: SnakeTraversal and               *)
(* ColumnSnakeTraversal on the tile grid of a one-op subgraph whose output *)
(* is nCols wide and nRows high, at granularity (1, 1, 1).                 *)

MaxGrid == 7

Grid(nCols, nRows) ==
  Problem(Uniform(2, nCols, nRows), <<PW(<<0>>, <<1>>, 1)>>, 3, 1, <<1, 1>>)

GridCols(q, e) == CeilDiv(q.Tensors[GetOutputTensor(q, e.Ops)].Width, e.Granularity[1])

GridRows(q, e) == CeilDiv(q.Tensors[GetOutputTensor(q, e.Ops)].Height, e.Granularity[2])

InitTraversal ==
  \E nCols \in 1..MaxGrid, nRows \in 1..MaxGrid :
    /\ p = Grid(nCols, nRows)
    /\ pc = "snake"
    /\ schedule = <<Found(<<0>>, <<1, 1, 1>>), Found(<<0>>, <<1, 1, 1>>)>>
    /\ run = 1
    /\ first = << >>
    /\ groups = << >>
    /\ sched = EmptySched
    /\ idx = 0
    /\ optSol = << >>
    /\ recSol = << >>
    /\ sol = << >>
    /\ evalOk = FALSE
    /\ trail = << >>
    /\ merges = << >>
    /\ orders = NoOrders
    /\ sizes = NoSizes
    /\ fusion = NoFusion

TraversalUnchanged ==
  UNCHANGED <<p, run, first, groups, sched, idx, optSol, recSol, sol, evalOk, trail,
              merges, orders, sizes, fusion>>

Snake ==
  /\ pc = "snake"
  /\ schedule' = [schedule EXCEPT ![1].Traversal =
                    SnakeTraversal(GridCols(p, schedule[1]), GridRows(p, schedule[1]))]
  /\ pc' = "column snake"
  /\ TraversalUnchanged

ColumnSnake ==
  /\ pc = "column snake"
  /\ schedule' = [schedule EXCEPT ![2].Traversal =
                    ColumnSnakeTraversal(GridCols(p, schedule[2]), GridRows(p, schedule[2]))]
  /\ pc' = "traversed"
  /\ TraversalUnchanged

NextTraversal ==
  \/ Snake
  \/ ColumnSnake

SpecTraversal == InitTraversal /\ [][NextTraversal]_vars

-----------------------------------------------------------------------------
(* EvaluateSubgraphDetailed on its own: one subgraph at every shape of     *)
(* tiles up to MaxTile, under no traversal order, the row snake and the    *)
(* column snake, with every set of its boundary inputs resident and its    *)
(* output retained or not.                                                 *)

\* A pointwise op feeding the LHS of a MatMul (K = 2), all tensors 2x2.
PointwiseIntoMatMul(cap, bw, c) ==
  Problem(Uniform(4, 2, 2), <<PW(<<0>>, <<1>>, c), MM(<<1, 2>>, <<3>>, c)>>, cap, bw, <<2, 2>>)

DetailedProblems ==
  UNION {{WideMatMul(MaxGranCap, bw, c, <<2, 2>>), PointwiseIntoMatMul(MaxGranCap, bw, c)}
         : bw \in Bandwidths, c \in Costs}

Traversals(q, ops, gran) ==
  LET outT == q.Tensors[GetOutputTensor(q, ops)]
      nCols == CeilDiv(outT.Width, gran[1])
      nRows == CeilDiv(outT.Height, gran[2])
  IN {<< >>, SnakeTraversal(nCols, nRows), ColumnSnakeTraversal(nCols, nRows)}

WithShape(s, gran, trav) == [s EXCEPT ![2].Granularity = gran, ![2].TraversalOrder = trav]

InitDetailed ==
  \E q \in DetailedProblems, gran \in TileShapes, retains \in BOOLEAN :
    \E ops \in {[i \in 1..NumOps(q) |-> i - 1]} :
      \E resident \in SUBSET GetSubgraphBoundary(q, ops).BoundaryInputs,
         trav \in Traversals(q, ops, gran) :
        /\ p = q
        /\ pc = "evaluate detailed"
        /\ sol = WithShape(Searched(q, ops, resident, retains), gran, trav)
        /\ run = 1
        /\ first = << >>
        /\ groups = << >>
        /\ sched = EmptySched
        /\ schedule = << >>
        /\ idx = 0
        /\ optSol = << >>
        /\ recSol = << >>
        /\ evalOk = FALSE
        /\ trail = << >>
        /\ merges = << >>
        /\ orders = NoOrders
        /\ sizes = NoSizes
        /\ fusion = NoFusion

Detailed ==
  /\ pc = "evaluate detailed"
  /\ \E r \in {EvaluateSubgraphDetailed(p, sol[2].Ops, sol[2].Granularity,
                                        sol[2].TensorsToRetain, sol[2].TraversalOrder,
                                        Range(sol[1].TensorsToRetain))} :
       /\ sol' = [sol EXCEPT ![2].SubgraphLatency = r.lat]
       /\ evalOk' = ~r.err
  /\ pc' = "evaluated detailed"
  /\ UNCHANGED <<p, run, first, groups, sched, schedule, idx, optSol, recSol, trail, merges,
                 orders, sizes, fusion>>

NextDetailed == Detailed

SpecDetailed == InitDetailed /\ [][NextDetailed]_vars

-----------------------------------------------------------------------------
(* Properties of the returned solution (Spec) and of the evaluator and the *)
(* fallback shape (SpecEval).                                              *)

Returned == pc = "done"

\* How many times op is listed in the subgraphs.
Occurrences(subgraphs, op) ==
  SumSeq([i \in DOMAIN subgraphs |->
            Cardinality({j \in DOMAIN subgraphs[i].Ops : subgraphs[i].Ops[j] = op})])

ExactlyOnce(q, subgraphs) ==
  /\ \A op \in OpIds(q) : Occurrences(subgraphs, op) = 1
  /\ \A i \in DOMAIN subgraphs : Range(subgraphs[i].Ops) \subseteq OpIds(q)

AllFit(q, subgraphs) ==
  \A i \in DOMAIN subgraphs :
    ComputeWorkingSet(q, subgraphs[i].Ops, subgraphs[i].Granularity,
                      ResidentBefore(subgraphs, i)) <= q.FastMemoryCapacity

DetailedLatency(q, subgraphs, i) ==
  EvaluateSubgraphDetailed(q, subgraphs[i].Ops, subgraphs[i].Granularity,
                           subgraphs[i].TensorsToRetain, subgraphs[i].TraversalOrder,
                           ResidentBefore(subgraphs, i))

\* The working set of ops at shape (1,1,1) with nothing resident.
UnitWorkingSet(q, ops) == ComputeWorkingSet(q, ops, <<1, 1, 1>>, {})

BoundaryCount(q, ops) ==
  Cardinality(GetSubgraphBoundary(q, ops).BoundaryInputs)
    + Cardinality(GetSubgraphBoundary(q, ops).BoundaryOutputs)

EveryOpFitsAlone(q) ==
  \A op \in OpIds(q) : UnitWorkingSet(q, <<op>>) <= q.FastMemoryCapacity

\* C1: in every returned solution each op of the problem is listed in
\* exactly one subgraph and exactly once in it.
C1_Partition == Returned => ExactlyOnce(p, sol)

\* A returned solution built after a cross-chain merge.
C1_Witness ==
  /\ Returned
  /\ trail = <<"accepted">>
  /\ Len(groups) < Len(ChainFusion(p))

PositionOf(subgraphs, op) ==
  CHOOSE i \in DOMAIN subgraphs : containsInt(subgraphs[i].Ops, op)

\* C3: in the returned solution a producer's subgraph is never later than
\* the subgraph of an op that consumes its output.
C3_ProducersFirst ==
  Returned =>
    \A v \in OpIds(p) : \A u \in Range(Dependencies(p, v)) :
      PositionOf(sol, u) <= PositionOf(sol, v)

\* A returned solution after two cross-chain merges that depend on each
\* other: an op placed before the op that produces its input.
C3_Witness ==
  /\ Returned
  /\ trail = <<"accepted">>
  /\ \E v \in OpIds(p) : \E u \in Range(Dependencies(p, v)) :
       PositionOf(sol, u) > PositionOf(sol, v)

\* C4: in a returned solution that EvaluateSolution accepts, every stored
\* SubgraphLatency is the detailed latency under the predecessor's
\* retention, and their sum is the total EvaluateSolution returns.
C4_StoredLatencies ==
  (Returned /\ ~EvaluateSolution(p, sol).err) =>
    /\ \A i \in DOMAIN sol :
         /\ ~DetailedLatency(p, sol, i).err
         /\ sol[i].SubgraphLatency = DetailedLatency(p, sol, i).lat
    /\ SumSeq([i \in DOMAIN sol |-> sol[i].SubgraphLatency])
         = EvaluateSolution(p, sol).lat

\* An accepted returned solution with a subgraph that starts with its
\* input resident.
C4_Witness ==
  /\ Returned
  /\ ~EvaluateSolution(p, sol).err
  /\ \E i \in DOMAIN sol :
       /\ i > 1
       /\ ResidentBefore(sol, i) \cap GetSubgraphBoundary(p, sol[i].Ops).BoundaryInputs # {}

\* What two solutions are compared on.
Layout(subgraphs) ==
  [i \in DOMAIN subgraphs |->
     <<subgraphs[i].Ops, subgraphs[i].Granularity, subgraphs[i].TensorsToRetain,
       subgraphs[i].TraversalOrder>>]

\* C5: a later run of SolveOptimized on the same problem returns the
\* solution the first run returned.
C5_Deterministic == (Returned /\ run > 1) => Layout(sol) = Layout(first)

\* A second run that returns another subgraph order than the first.
C5_Witness ==
  /\ Returned
  /\ run > 1
  /\ Len(sol) = Len(first)
  /\ \E i \in DOMAIN sol : sol[i].Ops # first[i].Ops

\* C6: when the returned solution and the baseline both evaluate, the
\* returned solution's total latency is at most the baseline's.
C6_NoWorseThanBaseline ==
  Returned =>
    LET mine == EvaluateSolution(p, sol)
        base == EvaluateSolution(p, baselineSolution(p))
    IN (~mine.err /\ ~base.err) => mine.lat <= base.lat

\* An accepted optimized schedule that is slower than the baseline.
C6_Witness ==
  /\ Returned
  /\ trail = <<"accepted">>
  /\ ~EvaluateSolution(p, baselineSolution(p)).err
  /\ EvaluateSolution(p, sol).lat > EvaluateSolution(p, baselineSolution(p)).lat

Shaped == pc \in {"verify", "verified"}

\* C7 as stated: with a capacity of at least 1, shape (1,1,1) fits every
\* non-empty subgraph under empty residency, and so does the shape
\* findSmallestFeasible returns.
C7_UnitShapeAlwaysFits ==
  (Shaped /\ p.FastMemoryCapacity >= 1) =>
    \A i \in DOMAIN schedule :
      schedule[i].Ops # << >> =>
        /\ UnitWorkingSet(p, schedule[i].Ops) <= p.FastMemoryCapacity
        /\ ComputeWorkingSet(p, schedule[i].Ops, schedule[i].Granularity, {})
             <= p.FastMemoryCapacity

\* C7 amended: under empty residency the working set of a non-empty
\* subgraph at (1,1,1) is its number of boundary inputs and outputs, and
\* findSmallestFeasible returns a shape that fits exactly when that number
\* is within the capacity.
C7_UnitShapeFitsIffCount ==
  Shaped =>
    \A i \in DOMAIN schedule :
      schedule[i].Ops # << >> =>
        /\ UnitWorkingSet(p, schedule[i].Ops) = BoundaryCount(p, schedule[i].Ops)
        /\ (ComputeWorkingSet(p, schedule[i].Ops, schedule[i].Granularity, {})
              <= p.FastMemoryCapacity)
             <=> (BoundaryCount(p, schedule[i].Ops) <= p.FastMemoryCapacity)

\* findSmallestFeasible had to shrink the native shape of a MatMul subgraph,
\* and the shape it returned fits.
C7_Witness ==
  /\ Shaped
  /\ \E i \in DOMAIN schedule :
       /\ schedule[i].Ops # << >>
       /\ HasMatMul(p, schedule[i].Ops)
       /\ schedule[i].Granularity
            # <<p.NativeGranularity[1], p.NativeGranularity[2], GetMaxK(p, schedule[i].Ops)>>
       /\ ComputeWorkingSet(p, schedule[i].Ops, schedule[i].Granularity, {})
            <= p.FastMemoryCapacity

\* C8: EvaluateSolution rejects every solution with a missing or a repeated
\* op, and accepts only solutions that list every op exactly once, fit the
\* capacity and have a computable latency in every subgraph.
C8_Validates ==
  pc = "verified" =>
    /\ ~ExactlyOnce(p, sol) => ~evalOk
    /\ evalOk => /\ ExactlyOnce(p, sol)
                 /\ AllFit(p, sol)
                 /\ \A i \in DOMAIN sol : ~DetailedLatency(p, sol, i).err

\* A solution that lists an op twice and that EvaluateSolution accepts.
C8_Witness ==
  /\ pc = "verified"
  /\ evalOk
  /\ \E op \in OpIds(p) : Occurrences(sol, op) > 1

\* C9: the returned solution is the optimized schedule exactly when
\* EvaluateSolution accepts it, else the recovered solution exactly when
\* that is accepted, else the baseline; recovery runs only after a
\* rejection, and the baseline only after the recovered solution's rejection.
C9_Fallbacks ==
  Returned =>
    LET optOk == ~EvaluateSolution(p, optSol).err
        recOk == ~EvaluateSolution(p, recSol).err
    IN /\ optOk => (trail = <<"accepted">> /\ sol = optSol /\ recSol = << >>)
       /\ (~optOk /\ recOk) =>
            (trail = <<"rejected", "recovery", "accepted">> /\ sol = recSol)
       /\ (~optOk /\ ~recOk) =>
            /\ trail = <<"rejected", "recovery", "rejected", "baseline">>
            /\ sol = baselineSolution(p)

\* A run that went through a rejected schedule and a rejected recovery
\* and returned the baseline.
C9_Witness ==
  /\ Returned
  /\ trail = <<"rejected", "recovery", "rejected", "baseline">>
  /\ sol # recSol

StoredTotal(sch) == SumSeq([i \in DOMAIN sch |-> sch[i].Latency])

\* Every stored latency of the schedule is the detailed latency of its entry.
StoredAreDetailed(q, sch) ==
  \A i \in DOMAIN sch :
    LET r == EvaluateSubgraphDetailed(q, sch[i].Ops, sch[i].Granularity, sch[i].Retain,
                                      sch[i].Traversal, ResidentOf(sch, i))
    IN ~r.err /\ sch[i].Latency = r.lat

\* C10: on a schedule whose stored latencies are the detailed ones,
\* pruneRetentions never raises the sum of the stored latencies, and it
\* changes the schedule only when that sum strictly drops.
C10_PruneNeverWorse ==
  [][(pc = "prune" /\ StoredAreDetailed(p, schedule)) =>
       /\ StoredTotal(schedule') <= StoredTotal(schedule)
       /\ schedule' # schedule => StoredTotal(schedule') < StoredTotal(schedule)]_vars

\* A pruned schedule with exact stored latencies that still retains a tensor.
C10_Witness ==
  /\ pc = "evaluate"
  /\ StoredAreDetailed(p, schedule)
  /\ \E i \in DOMAIN schedule : schedule[i].Retain # << >>

\* The detailed latency of a group fused on its own, as tryCrossChainFusion
\* computes its baselines.
IndependentLatency(q, ops) == TryFuseOps(q, ops, {}).lat

\* C11: every merge tryCrossChainFusion accepts has a fused detailed latency
\* strictly below 0.90 times the sum of the two groups' independent detailed
\* latencies and the bridge transfer (2 * size / bandwidth per bridge tensor);
\* the independent latency of a group that absorbed an earlier merge is that
\* merge's fused latency.
C11_MergesImprove ==
  \A i \in DOMAIN merges :
    /\ 10 * merges[i].lat
         < 9 * (merges[i].base1 + merges[i].base2
                + BridgeTransfer(p, merges[i].ops1, merges[i].ops2))
    /\ merges[i].base1 = IndependentLatency(p, merges[i].ops1)
    /\ merges[i].base2 = IndependentLatency(p, merges[i].ops2)
    /\ \A j \in 1..(i - 1) :
         merges[j].combined = merges[i].ops1 => merges[i].base1 = merges[j].lat

\* A group absorbs a second group after an accepted first merge.
C11_Witness ==
  \E i, j \in DOMAIN merges :
    /\ j < i
    /\ merges[j].combined = merges[i].ops1
    /\ merges[i].lat < Inf

Analyzed == pc = "analyzed"

\* order lists every op once, each op after the producers of its inputs.
IsTopologicalOrder(q, order) ==
  /\ Len(order) = NumOps(q)
  /\ \A op \in OpIds(q) : \E i \in DOMAIN order : order[i] = op
  /\ \A i, j \in DOMAIN order :
       (\E t \in Range(q.Ops[order[i]].Inputs) :
          containsInt(q.Ops[order[j]].Outputs, t)) => j < i

\* C12: on every acyclic problem, ops that read a tensor twice or read two
\* outputs of one producer included, the order of each of the three
\* topological sorts (baseline, sol-1, sol-2) is a permutation of the ops
\* with every op after the producers of its inputs.
C12_TopologicalOrders ==
  Analyzed => /\ IsTopologicalOrder(p, orders.baseline)
              /\ IsTopologicalOrder(p, orders.sol1)
              /\ IsTopologicalOrder(p, orders.sol2)

\* An op reads two outputs of one producer and the output of a third op;
\* the baseline and sol-2 order it after both, sol-1 does not.
C12_Witness ==
  /\ Analyzed
  /\ \E op \in OpIds(p) : {1, 2} \subseteq Range(p.Ops[op].Inputs)
  /\ IsTopologicalOrder(p, orders.baseline)
  /\ IsTopologicalOrder(p, orders.sol2)
  /\ ~IsTopologicalOrder(p, orders.sol1)

Readers(q, t) == {o \in OpIds(q) : containsInt(q.Ops[o].Inputs, t)}

\* C13: FindLinearChains puts every op in exactly one chain, and for any
\* two consecutive ops a, b of a chain a has exactly one output tensor and b
\* is the only consumer of that tensor.
C13_ChainsPartition ==
  Analyzed =>
    /\ ExactlyOnce(p, [c \in DOMAIN groups |-> [Ops |-> groups[c]]])
    /\ \A c \in DOMAIN groups : \A i \in 1..(Len(groups[c]) - 1) :
         /\ Len(p.Ops[groups[c][i]].Outputs) = 1
         /\ Readers(p, p.Ops[groups[c][i]].Outputs[1]) = {groups[c][i + 1]}

\* The three ops form one chain.
C13_Witness == Analyzed /\ \E c \in DOMAIN groups : Len(groups[c]) = NumOps(p)

\* The working set as the specification states it.
StatedWorkingSet(q, ops, gran, resident) ==
  LET produced == UNION {Range(q.Ops[o].Outputs) : o \in Range(ops)}
      consumed == UNION {Range(q.Ops[o].Inputs) : o \in Range(ops)}
      roleTile(t) ==
        LET reader == CHOOSE i \in DOMAIN ops :
                        /\ containsInt(q.Ops[ops[i]].Inputs, t)
                        /\ \A j \in 1..(i - 1) : ~containsInt(q.Ops[ops[j]].Inputs, t)
        IN IF q.Ops[ops[reader]].OpType # "MatMul" THEN gran[1] * gran[2]
           ELSE IF q.Ops[ops[reader]].Inputs[1] = t THEN gran[3] * gran[2]
           ELSE gran[1] * gran[3]
      full(t) == q.Tensors[t].Width * q.Tensors[t].Height
  IN SumFn([t \in consumed \ produced |-> IF t \in resident THEN full(t) ELSE roleTile(t)])
     + Cardinality(produced \ consumed) * gran[1] * gran[2]
     + SumFn([t \in resident \ (consumed \cup produced) |-> full(t)])

\* C14: the three ComputeWorkingSet implementations (baseline, sol-1,
\* sol-2) return the same value for every subgraph, tile shape and residency
\* set, namely the stated formula: full size per resident boundary input,
\* role tile per other boundary input, w*h per boundary output, and the full
\* size of every resident tensor that is neither a boundary input nor
\* produced by the subgraph.
C14_WorkingSetsAgree ==
  pc = "measured" =>
    \A v \in {sizes.baseline, sizes.sol1, sizes.sol2} :
      v = StatedWorkingSet(p, sol[2].Ops, sol[2].Granularity,
                           Range(sol[1].TensorsToRetain))

\* A resident boundary input larger than its tile: sol-2 returns the stated
\* value, the baseline and sol-1 a smaller one.
C14_Witness ==
  /\ pc = "measured"
  /\ sizes.sol2 = StatedWorkingSet(p, sol[2].Ops, sol[2].Granularity,
                                Range(sol[1].TensorsToRetain))
  /\ sizes.baseline < sizes.sol2
  /\ sizes.sol1 < sizes.sol2

\* The shape is within the primary output tensor of the ops.
WithinOutput(q, ops, gran) ==
  /\ gran[1] <= q.Tensors[GetOutputTensor(q, ops)].Width
  /\ gran[2] <= q.Tensors[GetOutputTensor(q, ops)].Height

\* C15: every tile shape FindBestGranularity or FindBestGranularityWithRetain
\* returns, the one of the halving fallback included, has w <= width and
\* h <= height of the primary output tensor of the subgraph.
C15_ShapesWithinOutput ==
  \A i \in DOMAIN schedule : WithinOutput(p, schedule[i].Ops, schedule[i].Granularity)

\* No candidate fits, and the halving from the native shape stops at a
\* width above the tensor's.
C15_Witness ==
  /\ pc = "retain"
  /\ \E i \in DOMAIN schedule :
       /\ schedule[i].Granularity = findSmallestFeasible(p, schedule[i].Ops, {})
       /\ schedule[i].Granularity[1] > p.Tensors[GetOutputTensor(p, schedule[i].Ops)].Width

\* The clamped native shape of a subgraph: min(native, output) per dimension.
ClampedNative(q, ops) ==
  <<MinInt(q.NativeGranularity[1], q.Tensors[GetOutputTensor(q, ops)].Width), MinInt(q.NativeGranularity[2], q.Tensors[GetOutputTensor(q, ops)].Height)>>

FitsIndividually(q) ==
  \A t \in DOMAIN q.Tensors : q.Tensors[t].Width * q.Tensors[t].Height <= q.FastMemoryCapacity

HasClampedNative(q, sg) ==
  /\ sg.Granularity[1] = ClampedNative(q, sg.Ops)[1]
  /\ sg.Granularity[2] = ClampedNative(q, sg.Ops)[2]

\* C16 as stated: when every tensor of the problem fits in fast memory on its
\* own, every subgraph of the returned solution has w = min(native_w, output
\* width) and h = min(native_h, output height).
C16_NativeWhenTensorsFit ==
  (Returned /\ FitsIndividually(p)) => \A i \in DOMAIN sol : HasClampedNative(p, sol[i])

\* The whole output of the subgraph as one tile, with the residency the
\* subgraph runs under and room for what it retains, is within capacity.
WholeOutputFits(q, subgraphs, i) ==
  LET out == q.Tensors[GetOutputTensor(q, subgraphs[i].Ops)]
  IN ComputeWorkingSetWithRetained(q, subgraphs[i].Ops, <<out.Width, out.Height, 1>>,
                                   ResidentBefore(subgraphs, i),
                                   subgraphs[i].TensorsToRetain) <= q.FastMemoryCapacity

WithinNative(q, ops) ==
  /\ q.Tensors[GetOutputTensor(q, ops)].Width <= q.NativeGranularity[1]
  /\ q.Tensors[GetOutputTensor(q, ops)].Height <= q.NativeGranularity[2]

\* C16, amended: a subgraph of the returned solution that holds no MatMul,
\* whose output tensor is no larger than the native shape, and whose working
\* set with the whole output as one tile is within capacity (under its
\* residency, with room for what it retains) has w = min(native_w, output
\* width) and h = min(native_h, output height).
C16_NativeWhenWorkingSetFits ==
  Returned =>
    \A i \in DOMAIN sol :
      (/\ ~HasMatMul(p, sol[i].Ops)
       /\ WithinNative(p, sol[i].Ops)
       /\ WholeOutputFits(p, sol, i)) => HasClampedNative(p, sol[i])

\* A returned subgraph of more than one element per tile that takes the whole
\* output as its tile.
C16_Witness ==
  /\ Returned
  /\ \E i \in DOMAIN sol :
       /\ ~HasMatMul(p, sol[i].Ops)
       /\ WithinNative(p, sol[i].Ops)
       /\ WholeOutputFits(p, sol, i)
       /\ HasClampedNative(p, sol[i])
       /\ sol[i].Granularity[1] * sol[i].Granularity[2] > 1

\* A single linear chain of MatMul ops, each of base cost above the threshold.
IsHeavyMatMulChain(q) ==
  /\ FindLinearChains(q) = <<[i \in 1..NumOps(q) |-> i - 1]>>
  /\ \A op \in OpIds(q) : q.Ops[op].OpType = "MatMul" /\ q.Ops[op].BaseCost > HeavyCost

\* C17: on a problem that is one linear chain of MatMul ops of base cost
\* above 2000 each, every subgraph of the returned solution holds one op.
C17_HeavyChainUnfused ==
  (Returned /\ IsHeavyMatMulChain(p)) => \A i \in DOMAIN sol : Len(sol[i].Ops) = 1

\* A heavy MatMul chain returned as one subgraph of all its ops, the chain
\* fusion's own grouping.
C17_Witness ==
  /\ Returned
  /\ IsHeavyMatMulChain(p)
  /\ groups = ChainFusion(p)
  /\ merges = << >>
  /\ \E i \in DOMAIN sol : Len(sol[i].Ops) = NumOps(p)

\* The groups of the i-th accepted merge of the pass.
TookPart(i) == {merges[i].g1, merges[i].g2}

\* C18 as stated: within one pass of tryCrossChainFusion a group that took
\* part in an accepted merge, absorbing or absorbed, takes part in no later
\* accepted merge.
C18_MergedOnce ==
  \A i, j \in DOMAIN merges : i < j => TookPart(i) \cap TookPart(j) = {}

\* The ops group g stood with when the j-th accepted merge was made.
StoodWith(j, g) == IF merges[j].g1 = g THEN merges[j].ops1 ELSE merges[j].ops2

\* C18, amended: within one pass a group absorbed by an accepted merge takes
\* part in no later accepted merge; the absorbing group may take part again,
\* and it then stands with all the ops the earlier merge gave it.
C18_AbsorbedOnce ==
  \A i, j \in DOMAIN merges :
    i < j => /\ merges[i].g2 \notin TookPart(j)
             /\ merges[i].g1 \in TookPart(j) =>
                  Range(merges[i].combined) \subseteq Range(StoodWith(j, merges[i].g1))

\* A pass in which one group absorbed two others.
C18_Witness ==
  /\ Len(merges) >= 2
  /\ merges[1].g1 = merges[2].g1
  /\ merges[1].g2 # merges[2].g2
  /\ merges[2].ops1 = merges[1].combined

\* There is a dependency path from op a to op b.
PathFrom(q, a, b) == a \in AllAncestorOps(q, b)

\* No path leaves the group and comes back into it.
Convex(q, ops) ==
  \A u, v \in Range(ops) : \A w \in OpIds(q) \ Range(ops) :
    ~(PathFrom(q, u, w) /\ PathFrom(q, w, v))

\* Every op of the list comes after its dependencies in the list.
InternallyOrdered(q, ops) ==
  \A i, j \in DOMAIN ops : containsInt(Dependencies(q, ops[i]), ops[j]) => j < i

\* The last op of the list has no dependent in the group.
LastIsSink(q, ops) ==
  \A i \in DOMAIN ops : ~containsInt(Dependencies(q, ops[i]), ops[Len(ops)])

\* C19: every subgraph OptimizeSchedule produces, a chain segment or a group
\* merged across chains once or several times, is convex in the op DAG, lists
\* every op after its in-group dependencies, and ends with a sink of the group.
C19_ConvexAndOrdered ==
  /\ \A g \in DOMAIN groups :
       Convex(p, groups[g]) /\ InternallyOrdered(p, groups[g]) /\ LastIsSink(p, groups[g])
  /\ \A i \in DOMAIN schedule :
       /\ Convex(p, schedule[i].Ops)
       /\ InternallyOrdered(p, schedule[i].Ops)
       /\ LastIsSink(p, schedule[i].Ops)

\* A scheduled subgraph that is a group which absorbed two merges.
C19_Witness ==
  /\ pc = "evaluate"
  /\ Len(merges) >= 2
  /\ \E i \in DOMAIN schedule :
       /\ schedule[i].Ops = merges[2].combined
       /\ merges[2].ops1 = merges[1].combined

\* Op b is a descendant of op a.
DescendantOf(q, b, a) == a \in AllAncestorOps(q, b)

\* The set has a member u with a dependency d outside it of which another
\* member is a descendant.
HasDescendantOfOutsideDep(q, ops) ==
  \E u \in Range(ops) : \E d \in Range(Dependencies(q, u)) \ Range(ops) :
    \E other \in Range(ops) \ {u} : DescendantOf(q, other, d)

\* The set has a member u with a dependency d outside it of which another
\* member is an ancestor.
HasAncestorOfOutsideDep(q, ops) ==
  \E u \in Range(ops) : \E d \in Range(Dependencies(q, u)) \ Range(ops) :
    \E other \in Range(ops) \ {u} : DescendantOf(q, d, other)

\* C20 as stated: no accepted merge of tryCrossChainFusion has a combined op
\* set with an op u and a dependency d of u outside the set such that another
\* member of the set is a descendant of d.
C20_NoDescendantOfOutsideDep ==
  \A i \in DOMAIN merges : ~HasDescendantOfOutsideDep(p, merges[i].combined)

\* C20, amended: no accepted merge has a combined op set with an op u and a
\* dependency d of u outside the set such that another member of the set is
\* an ancestor of d.
C20_NoAncestorOfOutsideDep ==
  \A i \in DOMAIN merges : ~HasAncestorOfOutsideDep(p, merges[i].combined)

\* After a pass: two groups that read one proposing tensor, whose union has
\* a member that is an ancestor of another member's outside dependency, were
\* left apart, while the pass was run on more than one group.
C20_Witness ==
  /\ pc = "order"
  /\ \E t \in SharedTensors(p, groups) :
       \E g1, g2 \in Range(TensorGroups(p, groups, t)) :
         /\ g1 < g2
         /\ HasAncestorOfOutsideDep(p, groups[g1] \o groups[g2])
         /\ ~HasDescendantOfOutsideDep(p, groups[g1] \o groups[g2])
         /\ ~canFuseGroups(p, groups[g1], groups[g2])

\* Both searches have returned.
Searched2 == pc = "searched"

UnitFits(q, ops, resident) ==
  ComputeWorkingSet(q, ops, <<1, 1, 1>>, resident) <= q.FastMemoryCapacity

SafeShape(q, ops, resident, gran) ==
  /\ gran[1] >= 1 /\ gran[2] >= 1 /\ gran[3] >= 1
  /\ UnitFits(q, ops, resident) =>
       ComputeWorkingSet(q, ops, gran, resident) <= q.FastMemoryCapacity

\* C21: FindBestGranularity and FindBestGranularityWithRetain return a shape
\* with w, h, k >= 1 whose plain working set under the residency is within
\* capacity whenever (1,1,1) is within capacity.
C21_SafeShapes ==
  \A i \in DOMAIN schedule :
    SafeShape(p, schedule[i].Ops, Range(sol[1].TensorsToRetain), schedule[i].Granularity)

\* Both searches fell back to the halving: no candidate fits, (1,1,1) fits,
\* and the returned shapes fit.
C21_Witness ==
  /\ Searched2
  /\ UnitFits(p, sol[2].Ops, Range(sol[1].TensorsToRetain))
  /\ \A i \in DOMAIN generateCandidates(p, sol[2].Ops, Range(sol[1].TensorsToRetain)) :
       ~generateCandidates(p, sol[2].Ops, Range(sol[1].TensorsToRetain))[i].Feasible
  /\ schedule[1].Granularity = findSmallestFeasible(p, sol[2].Ops, Range(sol[1].TensorsToRetain))
  /\ schedule[2].Granularity = schedule[1].Granularity

\* The latency the claim ranks shapes by: EvaluateSubgraphDetailed with no
\* retention under the traversal BestTraversal picks for the shape.
BestTraversalLatency(q, ops, resident, gran) ==
  EvaluateSubgraphDetailed(q, ops, gran, << >>, BestTraversal(q, ops, gran), resident)

\* The shapes generateCandidates lists as feasible.
FeasibleShapes(q, ops, resident) ==
  {<<c.W, c.H, c.K>> : c \in {d \in Range(generateCandidates(q, ops, resident)) : d.Feasible}}

\* C22: the shape FindBestGranularity returns has the least detailed latency,
\* under the traversal BestTraversal picks for each shape, of all feasible
\* candidates it generated.
C22_LeastDetailedLatency ==
  (Searched2 /\ FeasibleShapes(p, sol[2].Ops, Range(sol[1].TensorsToRetain)) # {}) =>
    \A g \in FeasibleShapes(p, sol[2].Ops, Range(sol[1].TensorsToRetain)) :
      LatencyOrInf(BestTraversalLatency(p, sol[2].Ops, Range(sol[1].TensorsToRetain),
                                        schedule[1].Granularity))
        <= LatencyOrInf(BestTraversalLatency(p, sol[2].Ops, Range(sol[1].TensorsToRetain), g))

\* The returned shape runs column-first under BestTraversal, which costs more
\* than another feasible candidate does under its own best traversal.
C22_Witness ==
  /\ Searched2
  /\ HasMatMul(p, sol[2].Ops)
  /\ BestTraversal(p, sol[2].Ops, schedule[1].Granularity)
       = ColumnSnakeTraversal(CeilDiv(p.Tensors[GetOutputTensor(p, sol[2].Ops)].Width, schedule[1].Granularity[1]), CeilDiv(p.Tensors[GetOutputTensor(p, sol[2].Ops)].Height, schedule[1].Granularity[2]))
  /\ \E g \in FeasibleShapes(p, sol[2].Ops, Range(sol[1].TensorsToRetain)) :
       LatencyOrInf(BestTraversalLatency(p, sol[2].Ops, Range(sol[1].TensorsToRetain), g))
         < LatencyOrInf(BestTraversalLatency(p, sol[2].Ops, Range(sol[1].TensorsToRetain),
                                             schedule[1].Granularity))

\* Both planners have returned for position idx.
PlannedBoth == pc = "planned"

\* What the claim asks of a retention set planned for position i.
FitsNextGroup(q, sch, i, retained) ==
  IF i >= Len(sch) THEN retained = << >>
  ELSE IF ComputeWorkingSet(q, sch[i + 1].Ops, sch[i + 1].Granularity, {}) > q.FastMemoryCapacity
       THEN retained = << >>
       ELSE ComputeWorkingSet(q, sch[i + 1].Ops, sch[i + 1].Granularity, Range(retained))
              <= q.FastMemoryCapacity

\* C23: the retention set PlanRetentionGlobal, and likewise PlanRetentionSimple,
\* returns for group i leaves the working set of group i+1 at its planned
\* shape within capacity whenever it is within capacity under empty residency;
\* the set is empty when it is not, and when i is the last group.
C23_RetentionFitsNext ==
  PlannedBoth => /\ FitsNextGroup(p, schedule, idx, schedule[idx].Retain)
                 /\ FitsNextGroup(p, schedule, idx, recSol[1].TensorsToRetain)

\* Both planners retain something, one of them a tensor the next group does
\* not read, and the next group's working set grows with it.
C23_Witness ==
  /\ PlannedBoth
  /\ idx < Len(schedule)
  /\ recSol[1].TensorsToRetain # << >>
  /\ \E t \in Range(schedule[idx].Retain) :
       t \notin GetSubgraphBoundary(p, schedule[idx + 1].Ops).BoundaryInputs
  /\ ComputeWorkingSet(p, schedule[idx + 1].Ops, schedule[idx + 1].Granularity,
                       Range(schedule[idx].Retain))
       > ComputeWorkingSet(p, schedule[idx + 1].Ops, schedule[idx + 1].Granularity, {})

\* The retention-aware working set of schedule entry i.
RetainedWorkingSet(q, sch, i) ==
  ComputeWorkingSetWithRetained(q, sch[i].Ops, sch[i].Granularity, ResidentOf(sch, i), sch[i].Retain)

\* C24: after phase 6 of OptimizeSchedule every group's retention-aware
\* working set (residency of the previous group, its own retention set) is
\* within capacity, or the group, no shape achieving it, has lost its
\* retention set.
C24_RetainedFitsAfterPhase6 ==
  pc = "prune" =>
    \A i \in DOMAIN schedule :
      \/ RetainedWorkingSet(p, schedule, i) <= p.FastMemoryCapacity
      \/ schedule[i].Retain = << >>

\* After phase 6 a group that fits without its retention set still holds
\* the set and is over capacity with it.
C24_Witness ==
  /\ pc = "prune"
  /\ \E i \in DOMAIN schedule :
       /\ schedule[i].Retain # << >>
       /\ RetainedWorkingSet(p, schedule, i) > p.FastMemoryCapacity
       /\ ComputeWorkingSet(p, schedule[i].Ops, schedule[i].Granularity,
                            ResidentOf(schedule, i)) <= p.FastMemoryCapacity
       /\ schedule[i].Granularity
            = findSmallestFeasible(p, schedule[i].Ops, ResidentOf(schedule, i))

FusionDone == pc = "fused"

GuardTripped == \E c \in fusion.tripped : Len(c) > 1

TrippedUnfused ==
  \A c \in fusion.tripped : \A i \in 1..Len(c) : <<c[i]>> \in Range(fusion.out)

\* C25: TryFuseChainSmart returns for every non-empty chain wherever the
\* guard trips; the ops of a chain on which the guard tripped are returned
\* one per subgraph, and the returned op lists, concatenated in order, are
\* the input chain.
C25_TerminatesAndPartitions ==
  /\ <>FusionDone
  /\ [](FusionDone => Concat(fusion.out) = fusion.chain)
  /\ [](FusionDone => TrippedUnfused)

C25_Witness ==
  /\ FusionDone
  /\ GuardTripped
  /\ \E i \in 1..Len(fusion.out) : Len(fusion.out[i]) > 1

Traversed == pc = "traversed"

IsTilePermutation(order, n) ==
  /\ Len(order) = n
  /\ Range(order) = 0..(n - 1)

EdgeAdjacent(nCols, a, b) ==
  LET rowA == a \div nCols
      colA == a % nCols
      rowB == b \div nCols
      colB == b % nCols
  IN \/ rowA = rowB /\ (colA = colB + 1 \/ colB = colA + 1)
     \/ colA = colB /\ (rowA = rowB + 1 \/ rowB = rowA + 1)

IsSnake(q, e) ==
  /\ IsTilePermutation(e.Traversal, GridCols(q, e) * GridRows(q, e))
  /\ \A i \in 1..(Len(e.Traversal) - 1) :
       EdgeAdjacent(GridCols(q, e), e.Traversal[i], e.Traversal[i + 1])

\* C26: SnakeTraversal and ColumnSnakeTraversal each return every tile index
\* 0..nCols*nRows-1 once, and every two consecutive tiles of the order are
\* neighbours in a row or in a column of the grid.
C26_SnakesAreAdjacentPermutations ==
  Traversed => (IsSnake(p, schedule[1]) /\ IsSnake(p, schedule[2]))

C26_Witness ==
  /\ Traversed
  /\ GridCols(p, schedule[1]) >= 3
  /\ GridRows(p, schedule[1]) >= 3
  /\ schedule[1].Traversal # schedule[2].Traversal

EvaluatedDetailed == pc = "evaluated detailed"

\* The tile visited at spatial step s: the given order, or row-major order
\* when none of the right length is given.
TileAt(order, nSpatial, s) == IF Len(order) = nSpatial THEN order[s + 1] ELSE s

\* Whether the tile of a boundary input of the given role is still in fast
\* memory at spatial step s, k-step j.
Reusable(role, nCols, order, nSpatial, s, j) ==
  LET tile == TileAt(order, nSpatial, s)
      prev == TileAt(order, nSpatial, s - 1)
  IN CASE role = "LHS" -> j = 0 /\ s > 0 /\ tile \div nCols = prev \div nCols
       [] role = "RHS" -> j = 0 /\ s > 0 /\ tile % nCols = prev % nCols
       [] OTHER -> j > 0

BytesMoved(q, sg, resident, nCols, nSpatial, nK, s, j) ==
  LET gran == sg.Granularity
      b == GetSubgraphBoundary(q, sg.Ops)
      loaded == {t \in b.BoundaryInputs :
                   /\ t \notin resident
                   /\ ~Reusable(InputTileRole(q, sg.Ops, t), nCols, sg.TraversalOrder,
                                nSpatial, s, j)}
      evicted == IF j = nK - 1 THEN b.BoundaryOutputs \ Range(sg.TensorsToRetain) ELSE {}
  IN SumFn([t \in loaded |-> InputTileSize(q, sg.Ops, t, gran[1], gran[2], gran[3])])
     + Cardinality(evicted) * gran[1] * gran[2]

\* The sum over all steps of max(sum of base costs, bytes / bandwidth),
\* times the bandwidth.
StepwiseLatency(q, sg, resident) ==
  LET outT == q.Tensors[GetOutputTensor(q, sg.Ops)]
      nCols == CeilDiv(outT.Width, sg.Granularity[1])
      nRows == CeilDiv(outT.Height, sg.Granularity[2])
      nK == CeilDiv(GetMaxK(q, sg.Ops), sg.Granularity[3])
      compute == SumFn([i \in DOMAIN sg.Ops |-> q.Ops[sg.Ops[i]].BaseCost])
                   * q.SlowMemoryBandwidth
  IN SumFn([x \in (0..(nCols * nRows - 1)) \X (0..(nK - 1)) |->
              MaxInt(compute, BytesMoved(q, sg, resident, nCols, nCols * nRows, nK,
                                         x[1], x[2]))])

\* C27: EvaluateSubgraphDetailed charges, at each spatial step and k-step,
\* the tiles of the boundary inputs that are neither resident nor reusable
\* there, plus w*h per boundary output not retained on the last k-step, and
\* adds up max(sum of base costs, bytes / bandwidth) over the steps.
C27_StepwiseBytes ==
  EvaluatedDetailed =>
    /\ evalOk
    /\ sol[2].SubgraphLatency = StepwiseLatency(p, sol[2], Range(sol[1].TensorsToRetain))

C27_Witness ==
  /\ EvaluatedDetailed
  /\ Len(sol[2].Ops) = 2
  /\ sol[1].TensorsToRetain = << >>
  /\ sol[2].TensorsToRetain = << >>
  /\ sol[2].Granularity = <<1, 1, 1>>
  /\ sol[2].TraversalOrder = <<0, 2, 3, 1>>
  /\ p.SlowMemoryBandwidth = 1
  /\ ComputePerStep(p, sol[2].Ops) = 0
  /\ sol[2].SubgraphLatency = 14

\* C28: on a schedule whose stored latencies are the detailed ones,
\* pruneRetentions changes nothing: no retention list, latency, granularity
\* or traversal of any entry.
C28_PruneLeavesExactSchedule ==
  [][(pc = "prune" /\ StoredAreDetailed(p, schedule)) => schedule' = schedule]_vars

\* A pruned schedule with exact stored latencies in which a group still
\* retains a tensor that the next group reads.
C28_Witness ==
  /\ pc = "evaluate"
  /\ StoredAreDetailed(p, schedule)
  /\ \E i \in 1..(Len(schedule) - 1) :
       \E t \in Range(schedule[i].Retain) :
         t \in GetSubgraphBoundary(p, schedule[i + 1].Ops).BoundaryInputs

\* The tensors an op list produces that some op outside the list reads.
ReadOutside(q, ops) ==
  {t \in GetSubgraphBoundary(q, ops).AllProduced :
     \E o \in OpIds(q) \ Range(ops) : t \in Range(q.Ops[o].Inputs)}

\* C29: in the solution OptimizeSchedule returns, every tensor that an op
\* outside its producer's subgraph reads is a boundary output of the
\* producer's subgraph.
C29_ReadOutsideIsBoundaryOutput ==
  \A i \in DOMAIN optSol :
    ReadOutside(p, optSol[i].Ops) \subseteq GetSubgraphBoundary(p, optSol[i].Ops).BoundaryOutputs

\* A returned subgraph in which a tensor read outside is ephemeral.
C29_Witness ==
  \E i \in DOMAIN optSol :
    ReadOutside(p, optSol[i].Ops) \cap GetSubgraphBoundary(p, optSol[i].Ops).Ephemeral # {}

ChainsFused == pc = "cross"

\* The chains OptimizeSchedule hands to FuseChainDP whose ops are each
\* feasible alone.
DPChains(q) ==
  {c \in Range(FindLinearChains(q)) :
     /\ Len(c) > GreedyMaxLen
     /\ \A i \in DOMAIN c : TryFuseOps(q, <<c[i]>>, {}).feasible}

\* The groups formed from the ops of chain c, in the order of the group list.
SegmentsOf(grps, c) == SelectSeq(grps, LAMBDA g : Range(g) \subseteq Range(c))

InfeasibleSegments(q, grps, c) ==
  {g \in Range(SegmentsOf(grps, c)) : Len(g) > 1 /\ ~TryFuseOps(q, g, {}).feasible}

\* C30: on a chain whose ops are each feasible alone, the segments FuseChainDP
\* returns are non-empty, follow each other in chain order and make up the
\* chain, have at most six ops each, and every segment of more than one op
\* is feasible to fuse.
C30_DPSegmentsFeasible ==
  ChainsFused =>
    \A c \in DPChains(p) :
      /\ Concat(SegmentsOf(groups, c)) = c
      /\ \A g \in Range(SegmentsOf(groups, c)) : Len(g) >= 1 /\ Len(g) <= MaxSegLen
      /\ InfeasibleSegments(p, groups, c) = {}

\* FuseChainDP has returned a segment of several ops that cannot be fused.
C30_Witness ==
  /\ ChainsFused
  /\ \E c \in DPChains(p) : InfeasibleSegments(p, groups, c) # {}

=============================================================================
